---- MODULE Spec2Model ----
(***************************************************************************)
(* Return / advantage estimators of rl/rollout.py (dremovd/PPO).           *)
(*                                                                         *)
(* The estimators are pure functions over numpy arrays.  Arrays are        *)
(* modelled as functions over 0-based index ranges, as in the source:      *)
(*   rewards, dones           [N, A]                                       *)
(*   values                   [N, A, H]                                    *)
(*   final_value_estimates    [A, H]                                       *)
(* Numbers are exact rationals <<n, d>> (d > 0, lowest terms), so that     *)
(* gamma and lambda can be proper fractions; float32 rounding is not       *)
(* modelled.                                                               *)
(***************************************************************************)
EXTENDS Integers, Sequences, FiniteSets, TLC

(***************************************************************************)
(* Bounds of the model.                                                    *)
(***************************************************************************)
MaxN == 2
MaxH == 3
LambDen == 12
MaxMaxN == 8
MaxCols == 2
MaxHorizon == 2
MaxSamples == 3
MaxValue == 3
MaxTheta == 2
MaxCalls == 3
MaxSteps == 3

(***************************************************************************)
(* Exact rational arithmetic standing for numpy's float arithmetic.        *)
(***************************************************************************)
Abs(x) == IF x < 0 THEN -x ELSE x

RECURSIVE GCD(_, _)
GCD(a, b) == IF b = 0 THEN a ELSE GCD(b, a % b)

Q(n, d) ==
    LET g == GCD(Abs(n), d)
    IN  IF n = 0 THEN <<0, 1>> ELSE <<n \div g, d \div g>>

Zero == <<0, 1>>
One == <<1, 1>>

RAdd(x, y) ==
    LET g == GCD(x[2], y[2])
        l == (x[2] \div g) * y[2]
    IN  Q(x[1] * (l \div x[2]) + y[1] * (l \div y[2]), l)

RNeg(x) == <<-x[1], x[2]>>

RSub(x, y) == RAdd(x, RNeg(y))

RMul(x, y) ==
    LET g1 == GCD(Abs(x[1]), y[2])
        g2 == GCD(Abs(y[1]), x[2])
    IN  IF x[1] = 0 \/ y[1] = 0 THEN Zero
        ELSE <<(x[1] \div g1) * (y[1] \div g2), (x[2] \div g2) * (y[2] \div g1)>>

RAbs(x) == <<Abs(x[1]), x[2]>>

RECURSIVE RPow(_, _)
RPow(x, n) == IF n = 0 THEN One ELSE RMul(x, RPow(x, n - 1))

\* a/b < c/d for a, c >= 0 and b, d > 0, by comparing continued fractions
\* (no cross multiplication, so no overflow)
RECURSIVE FracLess(_, _, _, _)
FracLess(a, b, c, d) ==
    LET q1 == a \div b
        q2 == c \div d
        r1 == a % b
        r2 == c % d
    IN  IF q1 # q2 THEN q1 < q2
        ELSE IF r2 = 0 THEN FALSE
        ELSE IF r1 = 0 THEN TRUE
        ELSE FracLess(d, r2, b, r1)

RLess(x, y) ==
    IF x[1] < 0 /\ y[1] >= 0 THEN TRUE
    ELSE IF x[1] >= 0 /\ y[1] < 0 THEN FALSE
    ELSE IF x[1] >= 0 THEN FracLess(x[1], x[2], y[1], y[2])
    ELSE FracLess(-y[1], y[2], -x[1], x[2])

\* x / y for y > 0
RDiv(x, y) == RMul(x, <<y[2], y[1]>>)

RECURSIVE RSum(_, _)
\* sum of f[0] .. f[n-1]
RSum(f, n) == IF n = 0 THEN Zero ELSE RAdd(RSum(f, n - 1), f[n - 1])

\* numpy arrays hold computed numbers: build the function's graph once
Array(f) == f @@ <<>>

VARIABLES
    in_rewards,     \* [N, A] rewards handed to the estimator
    in_dones,       \* [N, A] terminal flags, 1 = done
    in_values,      \* [N, A, H] value curve per timestep
    in_final,       \* [A, H] value curve of the state after the last step
    in_gamma,       \* discount rate
    args_n_steps,   \* args.n_steps, the configured rollout length
    op,             \* the estimator that was called last, with its arguments
    result,         \* what it returned: [ok |-> FALSE] stands for a raised exception
    sa,             \* the SimulatedAnnealing instance
    runner,         \* the Runner's rollout state and buffers
    env             \* the vectorized environment the Runner steps

vars == <<in_rewards, in_dones, in_values, in_final, in_gamma, args_n_steps, op, result,
          sa, runner, env>>

\* the arguments of the estimators
inputs == <<in_rewards, in_dones, in_values, in_final, in_gamma, args_n_steps>>

\* no SimulatedAnnealing instance, Runner or environment takes part
NoObjects ==
    /\ sa = [constructed |-> FALSE]
    /\ runner = [constructed |-> FALSE]
    /\ env = [created |-> FALSE]

(***************************************************************************)
(* Input arrays.  For fixed dones and gamma every estimator below is a     *)
(* linear map of (rewards, values, final_value_estimates), so the inputs   *)
(* are the zero arrays, every unit array (one entry 1, the rest 0), the    *)
(* all-ones arrays and one array with pairwise distinct entries.  The done *)
(* flags of an agent range over every 0/1 pattern; the agents are handled  *)
(* elementwise, so odd agents carry either the pattern of the even agents  *)
(* or its complement.                                                      *)
(***************************************************************************)
Gammas == {Q(1, 2)}

\* the agents are handled elementwise: one agent, and two to tell them apart
AgentCounts == {1, 2}

\* an [N, A] array filled with x
RewardArray(N, A, x) == [t \in 0..N-1 |-> [a \in 0..A-1 |-> x]]

\* value curves for t = 0..N: rows 0..N-1 are values, row N is the final estimate
CurveArray(N, A, H, x) == [t \in 0..N |-> [a \in 0..A-1 |-> [h \in 0..H-1 |-> x]]]

InputArrays(N, A, H) ==
    {[r |-> RewardArray(N, A, Zero), v |-> CurveArray(N, A, H, Zero)],
     [r |-> RewardArray(N, A, One), v |-> CurveArray(N, A, H, One)],
     [r |-> [t \in 0..N-1 |-> [a \in 0..A-1 |-> Q(1 + t + N * a, 1)]],
      v |-> [t \in 0..N |-> [a \in 0..A-1 |->
                [h \in 0..H-1 |-> Q(1 + h + H * (t + (N + 1) * a), 1)]]]]}
    \cup
    {[r |-> [RewardArray(N, A, Zero) EXCEPT ![t][a] = One],
      v |-> CurveArray(N, A, H, Zero)] : t \in 0..N-1, a \in 0..A-1}
    \cup
    {[r |-> RewardArray(N, A, Zero),
      v |-> [CurveArray(N, A, H, Zero) EXCEPT ![c[1]][c[2]][c[3]] = One]] :
        c \in (0..N) \X (0..A-1) \X (0..H-1)}

DoneArrays(N, A) ==
    {[t \in 0..N-1 |-> [a \in 0..A-1 |-> IF a % 2 = 0 THEN p[t] ELSE (p[t] + flip) % 2]] :
        p \in [0..N-1 -> {0, 1}], flip \in {0, 1}}

NoCall == [name |-> "none", lamb |-> Zero, normalize |-> FALSE, n_step |-> 0, max_n |-> 0,
           tvf_gamma |-> One]

Init ==
    \E N \in 1..MaxN, A \in AgentCounts, H \in 1..MaxH :
        \E inp \in InputArrays(N, A, H) :
            /\ in_rewards = inp.r
            /\ in_dones \in DoneArrays(N, A)
            /\ in_values = [t \in 0..N-1 |-> inp.v[t]]
            /\ in_final = inp.v[N]
            /\ in_gamma \in Gammas
            /\ args_n_steps = N
            /\ op = NoCall
            /\ NoObjects
            /\ result = [ok |-> TRUE, val |-> <<>>]

\* numpy's x.shape for the arrays above
Dim(f) == Cardinality(DOMAIN f)

OneMinus(done) == Q(1 - done, 1)

(***************************************************************************)
(* calculate_bootstrapped_returns                                          *)
(***************************************************************************)
\* mutant: the scan carries the return across an episode boundary
BootstrapStep_IgnoreDone(reward, current_return, g, done) ==
    RAdd(reward, RMul(current_return, g))

\* returns[i] = current_return = rewards[i] + current_return * gamma[i] * (1.0 - dones[i])
BootstrapStep(reward, current_return, g, done) ==
    RAdd(reward, RMul(RMul(current_return, g), OneMinus(done)))

RECURSIVE BootstrapLoop(_, _, _, _, _, _)
BootstrapLoop(rewards, dones, gammas, i, current_return, returns) ==
    IF i < 0 THEN returns
    ELSE LET new == Array([a \in DOMAIN rewards[i] |->
                        BootstrapStep(rewards[i][a], current_return[a], gammas[i][a], dones[i][a])])
         IN  BootstrapLoop(rewards, dones, gammas, i - 1, new, [returns EXCEPT ![i] = new])

calculate_bootstrapped_returns(rewards, dones, final_value_estimate, gamma) ==
    LET N == Dim(rewards)
        A == Dim(rewards[0])
        returns == Array([t \in 0..N-1 |-> [a \in 0..A-1 |-> Zero]])
        gammas == [t \in 0..N-1 |-> [a \in 0..A-1 |-> gamma]]
    IN  BootstrapLoop(rewards, dones, gammas, N - 1, final_value_estimate, returns)

(***************************************************************************)
(* calculate_gae                                                           *)
(***************************************************************************)
\* mutant: the residual bootstraps from the next value across an episode boundary
GaeDelta_IgnoreDone(reward, value_t, value_next_t, is_next_new_episode, gamma) ==
    RSub(RAdd(reward, RMul(gamma, value_next_t)), value_t)

GaeDelta(reward, value_t, value_next_t, is_next_new_episode, gamma) ==
    RSub(RAdd(reward, RMul(RMul(gamma, value_next_t), OneMinus(is_next_new_episode))), value_t)

\* mutant: the trace decays with gamma only
GaeStep_IgnoreLambda(delta, is_next_new_episode, gamma, lamb, prev_adv) ==
    RAdd(delta, RMul(RMul(gamma, OneMinus(is_next_new_episode)), prev_adv))

\* mutant: the trace runs across an episode boundary
GaeStep_IgnoreDone(delta, is_next_new_episode, gamma, lamb, prev_adv) ==
    RAdd(delta, RMul(RMul(gamma, lamb), prev_adv))

GaeStep(delta, is_next_new_episode, gamma, lamb, prev_adv) ==
    RAdd(delta, RMul(RMul(RMul(gamma, lamb), OneMinus(is_next_new_episode)), prev_adv))

RECURSIVE GaeLoop(_, _, _, _, _, _, _, _, _)
GaeLoop(batch_rewards, batch_value, final_value_estimate, batch_terminal, gamma, lamb, t, prev_adv, batch_advantage) ==
    IF t < 0 THEN batch_advantage
    ELSE LET N == Dim(batch_rewards)
             value_next_t == IF t # N - 1 THEN batch_value[t + 1] ELSE final_value_estimate
             new == Array([a \in DOMAIN batch_rewards[t] |->
                        GaeStep(GaeDelta(batch_rewards[t][a], batch_value[t][a], value_next_t[a],
                                         batch_terminal[t][a], gamma),
                                batch_terminal[t][a], gamma, lamb, prev_adv[a])])
         IN  GaeLoop(batch_rewards, batch_value, final_value_estimate, batch_terminal, gamma, lamb,
                     t - 1, new, [batch_advantage EXCEPT ![t] = new])

\* sum over a [N, A] array
ArraySum(x, N, A) ==
    LET row(t) == [a \in 0..A-1 |-> x[t][a]]
        rows == [t \in 0..N-1 |-> RSum(row(t), A)]
    IN  RSum(rows, N)

\* (batch_advantage - mean) / (std + 1e-8).  The square root is kept symbolic:
\* <<num, var>> stands for num / (sqrt(var) + 1e-8), with 0 written <<Zero, Zero>>.
Normalize(batch_advantage, N, A) ==
    LET count == Q(1, N * A)
        mean == RMul(ArraySum(batch_advantage, N, A), count)
        centred == Array([t \in 0..N-1 |->
                        Array([a \in 0..A-1 |-> RSub(batch_advantage[t][a], mean)])])
        squares == [t \in 0..N-1 |-> [a \in 0..A-1 |-> RMul(centred[t][a], centred[t][a])]]
        var == RMul(ArraySum(squares, N, A), count)
    IN  [t \in 0..N-1 |-> [a \in 0..A-1 |->
            IF centred[t][a] = Zero THEN <<Zero, Zero>> ELSE <<centred[t][a], var>>]]

calculate_gae(batch_rewards, batch_value, final_value_estimate, batch_terminal, gamma, lamb, normalize) ==
    LET N == Dim(batch_rewards)
        A == Dim(batch_rewards[0])
        zeros == Array([t \in 0..N-1 |-> [a \in 0..A-1 |-> Zero]])
        prev_adv == [a \in 0..A-1 |-> Zero]
        batch_advantage == GaeLoop(batch_rewards, batch_value, final_value_estimate, batch_terminal,
                                   gamma, lamb, N - 1, prev_adv, zeros)
    IN  IF normalize THEN Normalize(batch_advantage, N, A) ELSE batch_advantage

(***************************************************************************)
(* calculate_tvf_td                                                        *)
(***************************************************************************)
\* np.concatenate([values, final_value_estimates[None, :, :]], axis=0)
Concat(values, final_value_estimates) ==
    LET N == Dim(values)
    IN  Array([t \in 0..N |-> IF t < N THEN values[t] ELSE final_value_estimates])

\* mutant: the bootstrap value is not discounted
TdEstimate_Undiscounted(reward, done, next_curve, gamma, h) ==
    LET bootstrap_estimate == IF (h - 1) > 0 THEN RMul(OneMinus(done), next_curve[h - 1]) ELSE Zero
    IN  RAdd(reward, bootstrap_estimate)

\* mutant: the bootstrap reads horizon h instead of h - 1
TdEstimate_SameHorizon(reward, done, next_curve, gamma, h) ==
    LET discount == RMul(gamma, OneMinus(done))
        bootstrap_estimate == IF (h - 1) > 0 THEN RMul(discount, next_curve[h]) ELSE Zero
    IN  RAdd(reward, bootstrap_estimate)

\* the body of the loop over h, for one agent; next_curve is values[t + 1, a, :]
TdEstimate(reward, done, next_curve, gamma, h) ==
    LET reward_sum == reward
        discount == RMul(gamma, OneMinus(done))
        bootstrap_estimate == IF (h - 1) > 0 THEN RMul(discount, next_curve[h - 1]) ELSE Zero
    IN  RAdd(reward_sum, bootstrap_estimate)

calculate_tvf_td(rewards, dones, values, final_value_estimates, gamma) ==
    LET N == Dim(values)
        A == Dim(values[0])
        H == Dim(values[0][0])
        all == Concat(values, final_value_estimates)
    IN  Array([t \in 0..N-1 |-> Array([a \in 0..A-1 |-> Array([h \in 0..H-1 |->
            IF h \in 1..H-1
            THEN TdEstimate(rewards[t][a], dones[t][a], all[t + 1][a], gamma, h)
            ELSE Zero])])])

(***************************************************************************)
(* calculate_tvf_n_step                                                    *)
(***************************************************************************)
\* reward_sum += discount * this_reward
AccumulateReward(reward_sum, discount, this_reward) ==
    RAdd(reward_sum, RMul(discount, this_reward))

\* discount *= gamma * (1 - dones[t + n - 1])
AccumulateDiscount(discount, gamma, done) ==
    RMul(discount, RMul(gamma, OneMinus(done)))

\* for n in range(1, n_step + 1), with its two breaks; st holds the loop's locals
\* and returns_t, the row returns[t] of the result
RECURSIVE RewardLoop(_, _, _, _, _, _, _, _, _)
RewardLoop(rewards, dones, gamma, N, H, n_step, t, n, st) ==
    IF n > n_step \/ (t + n - 1) >= N \/ n >= H THEN st
    ELSE LET A == DOMAIN st.discount
             this_reward == rewards[t + n - 1]
             reward_sum == Array([a \in A |->
                              AccumulateReward(st.reward_sum[a], st.discount[a], this_reward[a])])
             discount == Array([a \in A |->
                              AccumulateDiscount(st.discount[a], gamma, dones[t + n - 1][a])])
             returns_t == Array([a \in A |-> [st.returns_t[a] EXCEPT ![n] = reward_sum[a]]])
         IN  RewardLoop(rewards, dones, gamma, N, H, n_step, t, n + 1,
                        [discount |-> discount, reward_sum |-> reward_sum,
                         steps_made |-> st.steps_made + 1, returns_t |-> returns_t])

\* the locals at the start of the loop body over t
LoopStart(A, H) ==
    [discount |-> [a \in 0..A-1 |-> One], reward_sum |-> [a \in 0..A-1 |-> Zero],
     steps_made |-> 0, returns_t |-> [a \in 0..A-1 |-> [h \in 0..H-1 |-> Zero]]]

\* a slice bound i of an axis of length len, as Python clips it
PyIndex(i, len) ==
    IF i < 0 THEN (IF len + i < 0 THEN 0 ELSE len + i)
    ELSE (IF i > len THEN len ELSE i)

\* x[lo:hi] of a 1-d array, as a 0-based array
PySlice(x, lo, hi) ==
    LET l == PyIndex(lo, Dim(x))
        h == PyIndex(hi, Dim(x))
    IN  Array([k \in 0..(h - l - 1) |-> x[l + k]])

\* whether numpy can broadcast a right-hand side of rhs_len columns into
\* target_len columns of an in-place +=
Broadcasts(target_len, rhs_len) == rhs_len = target_len \/ rhs_len = 1

\* row[lo:] += reward_sum + estimates, for one agent
SliceAdd(row, lo, reward_sum, estimates) ==
    Array([h \in DOMAIN row |->
        IF h >= lo
        THEN RAdd(row[h], RAdd(reward_sum, estimates[IF Dim(estimates) = 1 THEN 0 ELSE h - lo]))
        ELSE row[h]])

\* mutant: the slice starts at horizon 0
NStepBootstrap_FromZero(discount, curve, H, steps_made) ==
    LET sl == PySlice(curve, 0, H - steps_made - 1)
    IN  Array([k \in DOMAIN sl |-> RMul(discount, sl[k])])

\* discount[:, None] * values[t + steps_made, :, 1:H - steps_made], for one agent
NStepBootstrap(discount, curve, H, steps_made) ==
    LET sl == PySlice(curve, 1, H - steps_made)
    IN  Array([k \in DOMAIN sl |-> RMul(discount, sl[k])])

\* one pass of the loop over t: [ok, val], val the row returns[t]
NStepRow(rewards, dones, all, gamma, N, A, H, n_step, t) ==
    LET st == RewardLoop(rewards, dones, gamma, N, H, n_step, t, 1, LoopStart(A, H))
        s == st.steps_made
        discounted_bootstrap_estimates ==
            Array([a \in 0..A-1 |-> NStepBootstrap(st.discount[a], all[t + s][a], H, s)])
        ok == Broadcasts(H - PyIndex(s + 1, H), Dim(discounted_bootstrap_estimates[0]))
    IN  [ok |-> ok,
         val |-> IF ok
                 THEN Array([a \in 0..A-1 |->
                         SliceAdd(st.returns_t[a], s + 1, st.reward_sum[a],
                                  discounted_bootstrap_estimates[a])])
                 ELSE <<>>]

calculate_tvf_n_step(rewards, dones, values, final_value_estimates, gamma, n_step) ==
    LET N == Dim(values)
        A == Dim(values[0])
        H == Dim(values[0][0])
        all == Concat(values, final_value_estimates)
        rows == Array([t \in 0..N-1 |-> NStepRow(rewards, dones, all, gamma, N, A, H, n_step, t)])
        ok == \A t \in 0..N-1 : rows[t].ok
    IN  [ok |-> ok, val |-> IF ok THEN Array([t \in 0..N-1 |-> rows[t].val]) ELSE <<>>]

\* the non-vectorized code kept in the source for reference, for one agent:
\* for h in range(steps_made+1, H): returns[t, :, h] = reward_sum + bootstrap_estimate
ReferenceFill(row, discount, reward_sum, curve, H, steps_made) ==
    Array([h \in DOMAIN row |->
        IF h \in (steps_made + 1)..(H - 1)
        THEN LET bootstrap_estimate ==
                    IF (h - steps_made) > 0 THEN RMul(discount, curve[h - steps_made]) ELSE Zero
             IN  RAdd(reward_sum, bootstrap_estimate)
        ELSE row[h]])

calculate_tvf_n_step_reference(rewards, dones, values, final_value_estimates, gamma, n_step) ==
    LET N == Dim(values)
        A == Dim(values[0])
        H == Dim(values[0][0])
        all == Concat(values, final_value_estimates)
        row(t) ==
            LET st == RewardLoop(rewards, dones, gamma, N, H, n_step, t, 1, LoopStart(A, H))
            IN  Array([a \in 0..A-1 |->
                    ReferenceFill(st.returns_t[a], st.discount[a], st.reward_sum[a],
                                  all[t + st.steps_made][a], H, st.steps_made)])
    IN  Array([t \in 0..N-1 |-> row(t)])

(***************************************************************************)
(* calculate_tvf_mc                                                        *)
(***************************************************************************)
\* the reward loop as calculate_tvf_mc repeats it
RECURSIVE McRewardLoop(_, _, _, _, _, _, _, _, _)
McRewardLoop(rewards, dones, gamma, N, H, n_step, t, n, st) ==
    IF n > n_step \/ (t + n - 1) >= N \/ n >= H THEN st
    ELSE LET A == DOMAIN st.discount
             this_reward == rewards[t + n - 1]
             reward_sum == Array([a \in A |->
                              RAdd(st.reward_sum[a], RMul(st.discount[a], this_reward[a]))])
             discount == Array([a \in A |->
                              RMul(st.discount[a], RMul(gamma, OneMinus(dones[t + n - 1][a])))])
             returns_t == Array([a \in A |-> [st.returns_t[a] EXCEPT ![n] = reward_sum[a]]])
         IN  McRewardLoop(rewards, dones, gamma, N, H, n_step, t, n + 1,
                          [discount |-> discount, reward_sum |-> reward_sum,
                           steps_made |-> st.steps_made + 1, returns_t |-> returns_t])

\* mutant: the final estimate is added without the discount of the steps taken
McBootstrap_Undiscounted(discount, final_curve, steps_made) ==
    PySlice(final_curve, 1, -steps_made)

\* discount[:, None] * final_value_estimates[:, 1:-steps_made], for one agent
McBootstrap(discount, final_curve, steps_made) ==
    LET sl == PySlice(final_curve, 1, -steps_made)
    IN  Array([k \in DOMAIN sl |-> RMul(discount, sl[k])])

McRow(rewards, dones, final_value_estimates, gamma, N, A, H, n_step, t) ==
    LET st == McRewardLoop(rewards, dones, gamma, N, H, n_step, t, 1, LoopStart(A, H))
        s == st.steps_made
        discounted_bootstrap_estimates ==
            Array([a \in 0..A-1 |-> McBootstrap(st.discount[a], final_value_estimates[a], s)])
        ok == Broadcasts(H - PyIndex(s + 1, H), Dim(discounted_bootstrap_estimates[0]))
    IN  [ok |-> ok,
         val |-> IF ok
                 THEN Array([a \in 0..A-1 |->
                         SliceAdd(st.returns_t[a], s + 1, st.reward_sum[a],
                                  discounted_bootstrap_estimates[a])])
                 ELSE <<>>]

\* values is ignored
calculate_tvf_mc(rewards, dones, values, final_value_estimates, gamma) ==
    LET N == Dim(rewards)
        A == Dim(rewards[0])
        H == Dim(final_value_estimates[0])
        n_step == N
        rows == Array([t \in 0..N-1 |->
                    McRow(rewards, dones, final_value_estimates, gamma, N, A, H, n_step, t)])
        ok == \A t \in 0..N-1 : rows[t].ok
    IN  [ok |-> ok, val |-> IF ok THEN Array([t \in 0..N-1 |-> rows[t].val]) ELSE <<>>]

(***************************************************************************)
(* calculate_tvf_lambda                                                    *)
(***************************************************************************)
Min(x, y) == IF x < y THEN x ELSE y

\* int(min(1 / (1 - lamb), n_steps, 100)) for 0 < lamb < 1, in exact arithmetic
LambdaSteps(lamb, n_steps) ==
    Min(Min(lamb[2] \div (lamb[2] - lamb[1]), n_steps), 100)

\* mutant: the weights are divided by their total, so that they sum to 1
LambdaMix_Normalised(g, K, lamb) ==
    LET total == RSub(One, RPow(lamb, K))
        term(i, x) == RDiv(RMul(RMul(x, RPow(lamb, i)), RSub(One, lamb)), total)
    IN  Array([t \in DOMAIN g[0] |-> Array([a \in DOMAIN g[0][t] |->
            Array([h \in DOMAIN g[0][t][a] |->
                RSum([i \in 0..K-1 |-> term(i, g[i][t][a][h])], K)])])])

\* result = g[0] * (1 - lamb); result += g[i] * (lamb ** i) * (1 - lamb)
LambdaMix(g, K, lamb) ==
    LET term(i, x) == RMul(RMul(x, RPow(lamb, i)), RSub(One, lamb))
    IN  Array([t \in DOMAIN g[0] |-> Array([a \in DOMAIN g[0][t] |->
            Array([h \in DOMAIN g[0][t][a] |->
                RSum([i \in 0..K-1 |-> term(i, g[i][t][a][h])], K)])])])

\* mutant: the two shortcuts are swapped
calculate_tvf_lambda_Swapped(rewards, dones, values, final_value_estimates, gamma, lamb, n_steps) ==
    IF lamb = One
    THEN [ok |-> TRUE, val |-> calculate_tvf_td(rewards, dones, values, final_value_estimates, gamma)]
    ELSE calculate_tvf_mc(rewards, dones, values, final_value_estimates, gamma)

calculate_tvf_lambda(rewards, dones, values, final_value_estimates, gamma, lamb, n_steps) ==
    IF lamb = Zero
    THEN [ok |-> TRUE, val |-> calculate_tvf_td(rewards, dones, values, final_value_estimates, gamma)]
    ELSE IF lamb = One
    THEN calculate_tvf_mc(rewards, dones, values, final_value_estimates, gamma)
    ELSE LET K == LambdaSteps(lamb, n_steps)
             g == Array([i \in 0..K-1 |->
                     calculate_tvf_n_step(rewards, dones, values, final_value_estimates, gamma, i + 1)])
             ok == K >= 1 /\ \A i \in 0..K-1 : g[i].ok
         IN  [ok |-> ok,
              val |-> IF ok THEN LambdaMix([i \in 0..K-1 |-> g[i].val], K, lamb) ELSE <<>>]

(***************************************************************************)
(* calculate_gae_tvf.get_g_weights                                         *)
(***************************************************************************)
\* the loop: weights.append(weight); weight *= lamb
RECURSIVE DecayingWeights(_, _, _)
DecayingWeights(count, weight, lamb) ==
    IF count <= 0 THEN <<>>
    ELSE <<weight>> \o DecayingWeights(count - 1, RMul(weight, lamb), lamb)

\* weights.append(lamb ** max_n)
LastWeight(lamb, max_n) == RPow(lamb, max_n)

SeqSum(w) == RSum([i \in 0..Len(w)-1 |-> w[i + 1]], Len(w))

\* [ok, val]: ok is the assertion abs(weights.sum() - 1.0) < 1e-6
get_g_weights(max_n, lamb) ==
    LET weights == DecayingWeights(max_n - 1, RSub(One, lamb), lamb) \o <<LastWeight(lamb, max_n)>>
        ok == RLess(RAbs(RSub(SeqSum(weights), One)), Q(1, 1000000))
    IN  [ok |-> ok, val |-> IF ok THEN weights ELSE <<>>]

(***************************************************************************)
(* calculate_gae_tvf.  Every step that numpy can refuse (an index out of   *)
(* range, shapes that do not broadcast, a failed assertion) makes the call *)
(* raise: ok = FALSE.                                                      *)
(***************************************************************************)
\* whether numpy can broadcast the operands of a binary operation
BroadcastsBinary(m, n) == m = n \/ m = 1 \/ n = 1

\* expected_rewards = values[:, :, 0] - batch_value[:, :, 1]
\* the left operand has N+1 rows, the right one N rows
ExpectedRewards(batch_value, final_value_estimate) ==
    LET N == Dim(batch_value)
        H == Dim(final_value_estimate[0])
        values == Concat(batch_value, final_value_estimate)
        ok == H >= 2 /\ BroadcastsBinary(N + 1, N)
    IN  [ok |-> ok,
         ndim |-> 2,
         val |-> IF ok
                 THEN Array([t \in 0..N |-> Array([a \in DOMAIN values[t] |->
                         RSub(values[t][a][0], batch_value[IF N = 1 THEN 0 ELSE t][a][1])])])
                 ELSE <<>>]

\* one pass of the loop "for i in range(H)" of calculate_g, and the ones after it;
\* sum_of_rewards and discount have N entries, reward has A entries
RECURSIVE GLoop(_, _, _, _, _, _, _, _, _, _)
GLoop(batch_reward, batch_terminal, expected_rewards, gamma, H, t, pivot_state, i, sum_of_rewards, discount) ==
    IF i >= H THEN [ok |-> TRUE, val |-> sum_of_rewards]
    ELSE LET N == Dim(sum_of_rewards)
             A == Dim(batch_reward[0])
             col(j) == IF A = 1 THEN 0 ELSE j
             observed == t + i < pivot_state
             \* expected_rewards[pivot_state, :, (t+i)-pivot_state] takes three indices
             ok == Broadcasts(N, A) /\ (observed \/ expected_rewards.ndim = 3)
             reward == IF observed THEN batch_reward[t + i]
                       ELSE Array([a \in 0..A-1 |->
                                expected_rewards.val[pivot_state][a][(t + i) - pivot_state]])
             discount2 == IF observed
                          THEN Array([j \in 0..N-1 |->
                                   RMul(discount[j], OneMinus(batch_terminal[t + i][col(j)]))])
                          ELSE discount
             sum2 == Array([j \in 0..N-1 |->
                         RAdd(sum_of_rewards[j],
                              RMul(RMul(reward[col(j)], discount2[j]), RPow(gamma, i)))])
         IN  IF ok
             THEN GLoop(batch_reward, batch_terminal, expected_rewards, gamma, H, t, pivot_state,
                        i + 1, sum2, discount2)
             ELSE [ok |-> FALSE, val |-> <<>>]

\* G^(n)(s_t): sum_of_rewards = np.zeros([N]), discount = np.ones([N])
calculate_g(batch_reward, batch_terminal, expected_rewards, gamma, H, t, n) ==
    LET N == Dim(batch_reward)
    IN  GLoop(batch_reward, batch_terminal, expected_rewards, gamma, H, t, Min(t + n, N), 0,
              Array([j \in 0..N-1 |-> Zero]), Array([j \in 0..N-1 |-> One]))

\* advantages[t, :] += weight * calculate_g(t, n) for n = 1..max_n, skipping
\* weights <= 1e-6; advantages[t, :] has A entries, calculate_g(t, n) has N
RECURSIVE GaeTvfMix(_, _, _, _, _, _, _, _, _)
GaeTvfMix(batch_reward, batch_terminal, expected_rewards, gamma, H, t, weights, n, row) ==
    IF n > Len(weights) THEN [ok |-> TRUE, val |-> row]
    ELSE IF ~RLess(Q(1, 1000000), weights[n])
    THEN GaeTvfMix(batch_reward, batch_terminal, expected_rewards, gamma, H, t, weights, n + 1, row)
    ELSE LET g == calculate_g(batch_reward, batch_terminal, expected_rewards, gamma, H, t, n)
             N == Dim(batch_reward)
             A == Dim(row)
             ok == g.ok /\ Broadcasts(A, N)
         IN  IF ok
             THEN GaeTvfMix(batch_reward, batch_terminal, expected_rewards, gamma, H, t, weights, n + 1,
                      Array([a \in 0..A-1 |->
                          RAdd(row[a], RMul(weights[n], g.val[IF N = 1 THEN 0 ELSE a]))]))
             ELSE [ok |-> FALSE, val |-> <<>>]

\* the body of "for t in range(N)"
GaeTvfRow(batch_reward, batch_value, batch_terminal, expected_rewards, gamma, lamb, t) ==
    LET N == Dim(batch_reward)
        A == Dim(batch_reward[0])
        H == Dim(batch_value[0][0])
        weights == get_g_weights(N - t, lamb)
        mixed == GaeTvfMix(batch_reward, batch_terminal, expected_rewards, gamma, H, t,
                           weights.val, 1, Array([a \in 0..A-1 |-> Zero]))
    IN  IF weights.ok /\ mixed.ok
        THEN [ok |-> TRUE,
              val |-> Array([a \in 0..A-1 |-> RSub(mixed.val[a], batch_value[t][a][H - 1])])]
        ELSE [ok |-> FALSE, val |-> <<>>]

\* discount_fn is t |-> gamma ** t; tvf_gamma is args.tvf_gamma
calculate_gae_tvf(batch_reward, batch_value, final_value_estimate, batch_terminal, gamma, lamb, tvf_gamma) ==
    LET N == Dim(batch_reward)
        expected_rewards == ExpectedRewards(batch_value, final_value_estimate)
        rows == [t \in 0..N-1 |->
                    GaeTvfRow(batch_reward, batch_value, batch_terminal, expected_rewards,
                              gamma, lamb, t)]
        ok == tvf_gamma = One /\ expected_rewards.ok /\ \A t \in 0..N-1 : rows[t].ok
    IN  [ok |-> ok, val |-> IF ok THEN Array([t \in 0..N-1 |-> rows[t].val]) ELSE <<>>]

(***************************************************************************)
(* The calls.  The scalar estimators read the value at the longest horizon *)
(* of each curve.                                                          *)
(***************************************************************************)
LastHorizon(curves) == [a \in DOMAIN curves |-> curves[a][Dim(curves[a]) - 1]]

ScalarValues == [t \in DOMAIN in_values |-> LastHorizon(in_values[t])]

Lambdas == {Zero, Q(1, 2), One}

Returned(call, outcome) ==
    /\ op.name = "none"
    /\ op' = call
    /\ result' = outcome
    /\ UNCHANGED <<inputs, sa, runner, env>>

Ok(val) == [ok |-> TRUE, val |-> val]

CallBootstrappedReturns ==
    Returned([NoCall EXCEPT !.name = "calculate_bootstrapped_returns"],
             Ok(calculate_bootstrapped_returns(in_rewards, in_dones, LastHorizon(in_final), in_gamma)))

CallGae ==
    \E lamb \in Lambdas, normalize \in BOOLEAN :
        Returned([NoCall EXCEPT !.name = "calculate_gae", !.lamb = lamb, !.normalize = normalize],
                 Ok(calculate_gae(in_rewards, ScalarValues, LastHorizon(in_final), in_dones,
                                  in_gamma, lamb, normalize)))

CallTvfTd ==
    Returned([NoCall EXCEPT !.name = "calculate_tvf_td"],
             Ok(calculate_tvf_td(in_rewards, in_dones, in_values, in_final, in_gamma)))

CallTvfNStep ==
    \E n_step \in 1..(Dim(in_rewards) + 1) :
        Returned([NoCall EXCEPT !.name = "calculate_tvf_n_step", !.n_step = n_step],
                 calculate_tvf_n_step(in_rewards, in_dones, in_values, in_final, in_gamma, n_step))

CallTvfMc ==
    Returned([NoCall EXCEPT !.name = "calculate_tvf_mc"],
             calculate_tvf_mc(in_rewards, in_dones, in_values, in_final, in_gamma))

CallTvfLambda ==
    \E lamb \in Lambdas :
        Returned([NoCall EXCEPT !.name = "calculate_tvf_lambda", !.lamb = lamb],
                 calculate_tvf_lambda(in_rewards, in_dones, in_values, in_final, in_gamma,
                                      lamb, args_n_steps))

Next ==
    \/ CallBootstrappedReturns
    \/ CallGae
    \/ CallTvfTd
    \/ CallTvfNStep
    \/ CallTvfMc
    \/ CallTvfLambda

Spec == Init /\ [][Next]_vars

(***************************************************************************)
(* calculate_gae_tvf on the same inputs; args.tvf_gamma is read at the     *)
(* call.                                                                   *)
(***************************************************************************)
TvfGammas == {One, Q(1, 2)}

CallGaeTvf ==
    \E lamb \in Lambdas, tvf_gamma \in TvfGammas :
        Returned([NoCall EXCEPT !.name = "calculate_gae_tvf", !.lamb = lamb, !.tvf_gamma = tvf_gamma],
                 calculate_gae_tvf(in_rewards, in_values, in_final, in_dones, in_gamma, lamb, tvf_gamma))

NextGaeTvf == CallGaeTvf

SpecGaeTvf == Init /\ [][NextGaeTvf]_vars

(***************************************************************************)
(* get_g_weights on its own: max_n and lambda = p / LambDen are the only   *)
(* inputs, the arrays play no part.                                        *)
(***************************************************************************)
InitWeights ==
    /\ in_rewards = [t \in 0..0 |-> [a \in 0..0 |-> Zero]]
    /\ in_dones = [t \in 0..0 |-> [a \in 0..0 |-> 0]]
    /\ in_values = [t \in 0..0 |-> [a \in 0..0 |-> [h \in 0..0 |-> Zero]]]
    /\ in_final = [a \in 0..0 |-> [h \in 0..0 |-> Zero]]
    /\ in_gamma = One
    /\ args_n_steps = 1
    /\ op = NoCall
    /\ NoObjects
    /\ result = Ok(<<>>)

CallGetGWeights ==
    \E max_n \in 1..MaxMaxN, p \in 0..LambDen :
        Returned([NoCall EXCEPT !.name = "get_g_weights", !.lamb = Q(p, LambDen), !.max_n = max_n],
                 get_g_weights(max_n, Q(p, LambDen)))

NextWeights == CallGetGWeights

SpecWeights == InitWeights /\ [][NextWeights]_vars

(***************************************************************************)
(* get_rediscounted_value_estimate(values, old_gamma, new_gamma, horizons) *)
(* values is a [B, H] array; horizons is any sequence of integers.         *)
(***************************************************************************)
\* mutant: the previous column is not subtracted
RediscountReward_NoBaseline(value, prev, old_gamma, h) == RDiv(value, RPow(old_gamma, h))

\* reward = (values[:, i] - prev) / (old_gamma ** h)
RediscountReward(value, prev, old_gamma, h) == RDiv(RSub(value, prev), RPow(old_gamma, h))

\* for i, h in enumerate(horizons): ...; i counts from 0, horizons[i + 1] is h
RECURSIVE RediscountLoop(_, _, _, _, _, _, _)
RediscountLoop(values, old_gamma, new_gamma, horizons, i, prev, discounted_reward_sum) ==
    IF i >= Len(horizons) THEN discounted_reward_sum
    ELSE LET h == horizons[i + 1]
             B == Dim(values)
             reward == [b \in 0..B-1 |-> RediscountReward(values[b][i], prev[b], old_gamma, h)]
         IN  RediscountLoop(values, old_gamma, new_gamma, horizons, i + 1,
                 Array([b \in 0..B-1 |-> values[b][i]]),
                 Array([b \in 0..B-1 |->
                     RAdd(discounted_reward_sum[b], RMul(reward[b], RPow(new_gamma, h)))]))

\* mutant: the shortcut for old_gamma == new_gamma is not taken
get_rediscounted_value_estimate_NoShortcut(values, old_gamma, new_gamma, horizons) ==
    LET B == Dim(values)
        H == Dim(values[0])
        zeros == Array([b \in 0..B-1 |-> Zero])
    IN  IF Len(horizons) > H THEN [ok |-> FALSE, val |-> <<>>]
        ELSE Ok(RediscountLoop(values, old_gamma, new_gamma, horizons, 0, zeros, zeros))

\* values[:, i] raises IndexError when horizons is longer than the rows of values
get_rediscounted_value_estimate(values, old_gamma, new_gamma, horizons) ==
    LET B == Dim(values)
        H == Dim(values[0])
        zeros == Array([b \in 0..B-1 |-> Zero])
    IN  IF old_gamma = new_gamma THEN Ok(Array([b \in 0..B-1 |-> values[b][H - 1]]))
        ELSE IF Len(horizons) > H THEN [ok |-> FALSE, val |-> <<>>]
        ELSE Ok(RediscountLoop(values, old_gamma, new_gamma, horizons, 0, zeros, zeros))

\* [B, H] arrays: zero, all ones, pairwise distinct, and every unit array
ValueArrays(B, H) ==
    {[b \in 0..B-1 |-> [h \in 0..H-1 |-> Zero]],
     [b \in 0..B-1 |-> [h \in 0..H-1 |-> One]],
     [b \in 0..B-1 |-> [h \in 0..H-1 |-> Q(1 + h + H * b, 1)]]}
    \cup
    {[b \in 0..B-1 |-> [h \in 0..H-1 |-> IF <<b, h>> = c THEN One ELSE Zero]] :
        c \in (0..B-1) \X (0..H-1)}

\* horizon arrays of every length up to MaxSamples, sorted or not
HorizonArrays == UNION {[1..n -> 0..MaxHorizon] : n \in 0..MaxSamples}

\* <<old_gamma, new_gamma>>
RediscountGammas == {<<Q(1, 2), Q(1, 2)>>, <<One, One>>, <<Q(1, 2), Q(2, 3)>>,
                     <<One, Q(1, 2)>>, <<Q(2, 3), One>>}

BatchSizes == {1, 2}

CallRediscount ==
    /\ op.name = "none"
    /\ \E B \in BatchSizes, H \in 1..MaxCols :
        \E values \in ValueArrays(B, H), horizons \in HorizonArrays, g \in RediscountGammas :
            Returned([name |-> "get_rediscounted_value_estimate", values |-> values,
                      old_gamma |-> g[1], new_gamma |-> g[2], horizons |-> horizons],
                     get_rediscounted_value_estimate(values, g[1], g[2], horizons))

NextRediscount == CallRediscount

SpecRediscount == InitWeights /\ [][NextRediscount]_vars

(***************************************************************************)
(* package_aux_features(horizons, time).  An array is a record of its type *)
(* ("ndarray" or "Tensor"), its shape and its entries in row-major order.  *)
(***************************************************************************)
Raises(error) == [ok |-> FALSE, error |-> error, val |-> <<>>]

\* horizons.astype(np.float32), horizons.to(dtype=torch.float32): small integers are exact
AsFloat32(i) == Q(i, 1)

\* mutant: the time column is taken from the horizon's position, not the batch row
AuxFeatures_TimeByHorizon(horizons, time, B, H) ==
    Array([b \in 0..B-1 |-> Array([h \in 0..H-1 |->
        <<AsFloat32(horizons[b * H + h]), time[h % B]>>])])

\* concatenate([horizons.reshape([B, H, 1]), repeat(time.reshape([B, 1, 1]), H, axis=1)], axis=-1)
AuxFeatures(horizons, time, B, H) ==
    Array([b \in 0..B-1 |-> Array([h \in 0..H-1 |->
        <<AsFloat32(horizons[b * H + h]), time[b]>>])])

package_aux_features(horizons, time) ==
    LET one_dim == Len(horizons.shape) = 1
        \* np.repeat(horizons[None, :], len(time), axis=0)
        B == IF one_dim THEN time.shape[1] ELSE horizons.shape[1]
        H == IF one_dim THEN horizons.shape[1] ELSE horizons.shape[2]
        data == IF one_dim THEN [k \in 0..(B * H - 1) |-> horizons.data[k % H]] ELSE horizons.data
    IN  IF one_dim /\ horizons.type # "ndarray" THEN Raises("AssertionError")
        ELSE IF time.shape # <<B>> THEN Raises("AssertionError")
        ELSE IF time.type # horizons.type THEN Raises("AssertionError")
        ELSE [ok |-> TRUE, error |-> "", val |-> AuxFeatures(data, time.data, B, H)]

ArrayTypes == {"ndarray", "Tensor"}

TimeValues == {Zero, Q(1, 10), Q(1, 5)}

\* time arrays of shape (B,) and (B, 1)
TimeArrays ==
    {[type |-> ty, shape |-> sh, data |-> d] :
        ty \in ArrayTypes,
        sh \in {<<B>> : B \in BatchSizes} \cup {<<B, 1>> : B \in BatchSizes},
        d \in UNION {[0..B-1 -> TimeValues] : B \in BatchSizes}}

\* horizons of shape (H,), and of shape (B, H) with row b shifted by b
HorizonInputs ==
    {[type |-> ty, shape |-> <<Len(hz)>>, data |-> [k \in 0..Len(hz)-1 |-> hz[k + 1]]] :
        ty \in ArrayTypes, hz \in HorizonArrays \ {<<>>}}
    \cup
    {[type |-> c[1], shape |-> <<c[2], Len(c[3])>>,
      data |-> [k \in 0..(c[2] * Len(c[3]) - 1) |->
                   (c[3][(k % Len(c[3])) + 1] + (k \div Len(c[3]))) % (MaxHorizon + 1)]] :
        c \in ArrayTypes \X BatchSizes \X (HorizonArrays \ {<<>>})}

CallPackageAuxFeatures ==
    /\ op.name = "none"
    /\ \E horizons \in HorizonInputs, time \in TimeArrays :
        /\ Dim(time.data) = time.shape[1]
        /\ Returned([name |-> "package_aux_features", horizons |-> horizons, time |-> time],
                    package_aux_features(horizons, time))

NextAux == CallPackageAuxFeatures

SpecAux == InitWeights /\ [][NextAux]_vars

(***************************************************************************)
(* Runner.generate_horizon_sample.  Sample arrays are sequences.  Only the *)
(* order and the rounding of a real sample matter, so a random real is one *)
(* of the odd quarters 1/4, 3/4, 5/4, ... (two per unit, one rounding down *)
(* and one rounding up) and an irrational point of np.geomspace is the     *)
(* midpoint of the quarter it lies in.                                     *)
(***************************************************************************)
Distributions == {"fixed_linear", "fixed_geometric", "linear", "geometric",
                  "saturated_geometric", "saturated_fixed_geometric"}

\* the supported names and one that is not
DistributionNames == Distributions \cup {"uniform"}

\* mutant: the range starts at 1
Arange_FromOne(n) == [i \in 1..n |-> i]

\* np.arange(0, n)
Arange(n) == [i \in 1..n |-> i - 1]

\* np.rint of x >= 0: round to nearest, halves to even
Rint(x) ==
    LET q == x[1] \div x[2]
        r == x[1] % x[2]
    IN  IF 2 * r < x[2] THEN q
        ELSE IF 2 * r > x[2] THEN q + 1
        ELSE IF q % 2 = 0 THEN q ELSE q + 1

RECURSIVE Insert(_, _)
Insert(x, s) ==
    IF s = <<>> THEN <<x>>
    ELSE IF RLess(s[1], x) THEN <<s[1]>> \o Insert(x, Tail(s))
    ELSE <<x>> \o s

\* mutant: the array is left in the order it was drawn
Sorted_AsDrawn(s) == s

\* samples.sort()
RECURSIVE Sorted(_)
Sorted(s) == IF s = <<>> THEN <<>> ELSE Insert(s[1], Sorted(Tail(s)))

RECURSIVE IPow(_, _)
IPow(b, e) == IF e = 0 THEN 1 ELSE b * IPow(b, e - 1)

\* stop ** (i / k) - 1 for 0 < i < k, as the midpoint of its quarter
GeomPoint(stop, i, k) ==
    LET target == IPow(4, k) * IPow(stop, i)
        m == CHOOSE m \in 0..(4 * stop) : IPow(m, k) <= target /\ IPow(m + 1, k) > target
    IN  RSub(Q(2 * m + 1, 8), One)

\* np.linspace(0, max_value, num=num, endpoint=True)
Linspace(max_value, num) ==
    [i \in 1..num |-> IF num = 1 THEN Zero ELSE Q((i - 1) * max_value, num - 1)]

\* np.geomspace(1, stop, num=num, endpoint=endpoint) - 1
GeomspaceMinusOne(stop, num, endpoint) ==
    LET k == IF endpoint THEN num - 1 ELSE num
    IN  [i \in 1..num |->
            IF i = 1 THEN Zero
            ELSE IF endpoint /\ i = num THEN Q(stop - 1, 1)
            ELSE GeomPoint(stop, i - 1, k)]

\* np.exp(np.random.uniform(np.log(1), np.log(high + 1), size=size)) - 1
UniformGeometric(high, size) == [1..size -> {Q(2 * j + 1, 4) : j \in 0..(2 * high - 1)}]

\* np.random.choice(range(1, max_value), size=size, replace=False)
Choice(max_value, size) ==
    {c \in [1..size -> 1..(max_value - 1)] : \A i, j \in 1..size : i # j => c[i] # c[j]}

\* the arrays "samples" can hold before samples.sort(), for a supported distribution
SampleArrays(N, max_value, samples, distribution) ==
    IF distribution = "fixed_linear" THEN {Linspace(max_value, samples)}
    ELSE IF distribution = "fixed_geometric"
    THEN {GeomspaceMinusOne(1 + max_value, samples, TRUE)}
    ELSE IF distribution = "linear"
    THEN {[i \in 1..samples |-> Q(c[i], 1)] : c \in Choice(max_value, samples)}
    ELSE IF distribution = "geometric" THEN UniformGeometric(max_value, samples)
    ELSE IF distribution = "saturated_geometric"
    THEN {c[1] \o c[2] : c \in UniformGeometric(Min(N, max_value), samples \div 2)
                              \X UniformGeometric(max_value, samples \div 2)}
    ELSE {GeomspaceMinusOne(Min(N, max_value) + 1, samples \div 2, FALSE)
          \o GeomspaceMinusOne(1 + max_value, samples \div 2, TRUE)}

\* samples[0] = 0; samples[-1] = max_value
ForceFirstAndLast(sorted, max_value) ==
    [[sorted EXCEPT ![1] = Zero] EXCEPT ![Len(sorted)] = Q(max_value, 1)]

\* drawn is the array the random generator produced (unused on the other paths)
generate_horizon_sample(N, max_value, samples, distribution, force_first_and_last, drawn) ==
    IF samples = -1 \/ samples >= max_value + 1 THEN Ok(Arange(max_value + 1))
    ELSE IF distribution \notin Distributions THEN Raises("Exception")
    ELSE IF distribution = "linear" /\ samples > 0 /\ samples > max_value - 1
    THEN Raises("ValueError")
    ELSE LET sorted == Sorted(drawn)
         IN  IF force_first_and_last /\ sorted = <<>> THEN Raises("IndexError")
             ELSE LET final == IF force_first_and_last
                               THEN ForceFirstAndLast(sorted, max_value) ELSE sorted
                  IN  Ok([i \in 1..Len(final) |-> Rint(final[i])])

\* self.N = args.n_steps
InitSampler ==
    /\ in_rewards = [t \in 0..0 |-> [a \in 0..0 |-> Zero]]
    /\ in_dones = [t \in 0..0 |-> [a \in 0..0 |-> 0]]
    /\ in_values = [t \in 0..0 |-> [a \in 0..0 |-> [h \in 0..0 |-> Zero]]]
    /\ in_final = [a \in 0..0 |-> [h \in 0..0 |-> Zero]]
    /\ in_gamma = One
    /\ args_n_steps \in 1..MaxN
    /\ op = NoCall
    /\ NoObjects
    /\ result = Ok(<<>>)

CallGenerateHorizonSample ==
    /\ op.name = "none"
    /\ \E max_value \in 0..MaxValue, samples \in -1..(MaxValue + 2) :
        \E distribution \in DistributionNames, force_first_and_last \in BOOLEAN :
            \E drawn \in IF distribution \in Distributions /\ samples >= 0 /\ samples < max_value + 1
                         THEN SampleArrays(args_n_steps, max_value, samples, distribution)
                         ELSE {<<>>} :
                Returned([name |-> "generate_horizon_sample", max_value |-> max_value,
                          samples |-> samples, distribution |-> distribution,
                          force_first_and_last |-> force_first_and_last],
                         generate_horizon_sample(args_n_steps, max_value, samples, distribution,
                                                 force_first_and_last, drawn))

NextSampler == CallGenerateHorizonSample

SpecSampler == InitSampler /\ [][NextSampler]_vars

(***************************************************************************)
(* SimulatedAnnealing.  The walk is in log space, so the values are the    *)
(* powers of two 2^theta and a normal draw is a whole number of steps.     *)
(* Scores are integers from 0; float('-inf') lies below all of them.       *)
(***************************************************************************)
NegInf == -1

Scores == 0..2

\* 2 ** theta
Pow2(theta) == IF theta >= 0 THEN Q(IPow(2, theta), 1) ELSE Q(1, IPow(2, -theta))

\* math.log(value, 2) for a power of two
Log2(value) ==
    CHOOSE theta \in -(MaxTheta + 1)..(MaxTheta + 1) : Pow2(theta) = value

\* np.random.normal(args.sa_mu, args.sa_sigma), in steps
NormalDraws == {-1, 0, 1}

\* _generate_neighbour: theta = log2(value); neighbour = 2 ** (theta + normal)
generate_neighbour(self, normal) ==
    [self EXCEPT !.neighbour = Pow2(Log2(self.value) + normal)]

\* mutant: the stored score is the one compared against, never the one passed
Accepts_StoredScore(self, score, prev_score, given, lucky) ==
    score > self.prev_score \/ lucky

\* (score > prev_score) or (np.random.rand() < 0.05)
Accepts(self, score, prev_score, given, lucky) ==
    LET compared == IF given THEN prev_score ELSE self.prev_score
    IN  score > compared \/ lucky

\* the accept branch
Accepted(self, score) ==
    [self EXCEPT !.value = self.neighbour, !.prev_score = score, !.accepts = @ + 1]

\* the reject branch
Rejected(self) == [self EXCEPT !.rejects = @ + 1]

\* process(score, prev_score): given tells whether prev_score was passed,
\* lucky is np.random.rand() < 0.05, normal the draw of the new neighbour
process(self, score, prev_score, given, lucky, normal) ==
    generate_neighbour(IF Accepts(self, score, prev_score, given, lucky)
                       THEN Accepted(self, score)
                       ELSE Rejected(self),
                       normal)

\* mutant: the constructor does not take the logarithm and copies the value
SimulatedAnnealing_NoLog(initial_value, normal) ==
    Ok([constructed |-> TRUE, value |-> initial_value, neighbour |-> initial_value,
        prev_score |-> NegInf, accepts |-> 0, rejects |-> 0])

\* SimulatedAnnealing(initial_value): math.log raises ValueError unless the value is positive
SimulatedAnnealing(initial_value, normal) ==
    IF ~RLess(Zero, initial_value) THEN Raises("ValueError")
    ELSE Ok(generate_neighbour([constructed |-> TRUE, value |-> initial_value,
                                neighbour |-> initial_value, prev_score |-> NegInf,
                                accepts |-> 0, rejects |-> 0], normal))

\* initial values: negative, the default 0, and powers of two
InitialValues == {Q(-1, 1), Zero} \cup {Pow2(theta) : theta \in -1..1}

\* no instance yet
InitSA ==
    /\ in_rewards = [t \in 0..0 |-> [a \in 0..0 |-> Zero]]
    /\ in_dones = [t \in 0..0 |-> [a \in 0..0 |-> 0]]
    /\ in_values = [t \in 0..0 |-> [a \in 0..0 |-> [h \in 0..0 |-> Zero]]]
    /\ in_final = [a \in 0..0 |-> [h \in 0..0 |-> Zero]]
    /\ in_gamma = One
    /\ args_n_steps = 1
    /\ op = [name |-> "none", calls |-> 0]
    /\ result = Ok(<<>>)
    /\ NoObjects

Construct ==
    /\ op.name = "none"
    /\ \E initial_value \in InitialValues, normal \in NormalDraws :
        LET made == SimulatedAnnealing(initial_value, normal)
        IN  /\ result' = IF made.ok THEN Ok(<<>>) ELSE made
            /\ sa' = IF made.ok THEN made.val ELSE sa
            /\ op' = [name |-> "SimulatedAnnealing", calls |-> 0, initial_value |-> initial_value]
    /\ UNCHANGED <<inputs, runner, env>>

\* op keeps the arguments, the draws and the instance as it was before the call
CallProcess ==
    /\ sa.constructed
    /\ op.calls < MaxCalls
    /\ \E score \in Scores, prev_score \in Scores, given \in BOOLEAN, lucky \in BOOLEAN :
        \E normal \in NormalDraws :
            \* the walk stays inside the modelled range of values
            /\ \A v \in {sa.value, sa.neighbour} :
                   Log2(v) + normal \in -MaxTheta..MaxTheta
            /\ given \/ prev_score = 0
            /\ sa' = process(sa, score, prev_score, given, lucky, normal)
            /\ op' = [name |-> "process", calls |-> op.calls + 1, score |-> score,
                      prev_score |-> prev_score, given |-> given, lucky |-> lucky,
                      before |-> sa]
            /\ UNCHANGED <<inputs, result, runner, env>>

NextSA == Construct \/ CallProcess

SpecSA == InitSA /\ [][NextSA]_vars

(***************************************************************************)
(* Runner.generate_rollout and the vectorized environment.  Observations,  *)
(* rewards and times are numbers that differ from step to step and from    *)
(* agent to agent, so that a buffer row filled from the wrong step shows.  *)
(* Buffers are allocated as zeros.                                         *)
(***************************************************************************)
\* what a step does to an agent's episode
StepKinds == {"running", "done", "fake_done", "no_raw_reward"}

\* per-agent outcomes of one step: at most one agent ends, or all of them do, or the
\* info of the first agent carries no "raw_reward"
KindArrays(A) ==
    {[a \in 0..A-1 |-> "running"], [a \in 0..A-1 |-> "done"]}
    \cup {[a \in 0..A-1 |-> IF a = b THEN kind ELSE "running"] :
            b \in 0..A-1, kind \in {"done", "fake_done"}}
    \cup {[a \in 0..A-1 |-> IF a = 0 THEN "no_raw_reward" ELSE "running"]}

\* the observation of agent a after clock steps
EnvObs(clock, A) == [a \in 0..A-1 |-> 1 + 2 * clock + a]

\* vec_env.step(actions): kinds is what happens to each agent's episode
VecEnvStep(e, actions, kinds) ==
    LET A == Dim(e.obs)
        clock == e.clock + 1
        rewards == [a \in 0..A-1 |-> 10 * clock + a]
        dones == [a \in 0..A-1 |-> kinds[a] # "running"]
        infos == [a \in 0..A-1 |->
                     IF kinds[a] = "no_raw_reward"
                     THEN [time |-> clock, ep_length |-> 100 + clock, fake_done |-> FALSE]
                     ELSE [time |-> clock, raw_reward |-> rewards[a], ep_length |-> 100 + clock,
                           fake_done |-> kinds[a] = "fake_done"]]
        entry == [obs_before |-> e.obs, time_before |-> e.time, actions |-> actions,
                  obs |-> EnvObs(clock, A), rewards |-> rewards, dones |-> dones,
                  infos |-> infos]
    IN  [e EXCEPT !.clock = clock, !.obs = entry.obs,
                  !.time = [a \in 0..A-1 |-> clock], !.log = Append(@, entry)]

\* model_out["log_policy"] of detached_batch_forward(self.obs, output="policy")
LogPolicy(obs) == [a \in DOMAIN obs |-> -obs[a]]

\* utils.sample_action_from_logp, one action per agent
SampleActions(log_policy, shift) == [a \in DOMAIN log_policy |-> (a + shift) % 2]

\* compression.BufferSlot(x), and its decompress()
BufferSlot(x) == <<"BufferSlot", x>>

Decompress(slot) == slot[2]

\* mutant: the buffer row takes the observation the step returned
StoredObs_AfterStep(prev_obs, obs, use_compression) ==
    IF use_compression THEN [a \in DOMAIN obs |-> BufferSlot(obs[a])] ELSE obs

\* the row written to all_obs[t]: prev_obs, compressed slot by slot when enabled
StoredObs(prev_obs, obs, use_compression) ==
    IF use_compression THEN [a \in DOMAIN prev_obs |-> BufferSlot(prev_obs[a])] ELSE prev_obs

\* mutant: a loss-of-life done resets the counters like a real one
RECURSIVE EpisodeBookkeeping_FakeResets(_, _, _, _)
EpisodeBookkeeping_FakeResets(r, dones, infos, i) ==
    IF i >= Dim(dones) THEN r
    ELSE IF ~dones[i] THEN EpisodeBookkeeping_FakeResets(r, dones, infos, i + 1)
    ELSE EpisodeBookkeeping_FakeResets(
             [r EXCEPT !.episode_length_buffer = Append(@, infos[i].ep_length),
                       !.ep_count = @ + 1, !.episode_score[i] = 0, !.episode_len[i] = 0],
             dones, infos, i + 1)

\* the loop "for i, (done, info) in enumerate(zip(dones, infos))" over the agents
RECURSIVE EpisodeBookkeeping(_, _, _, _)
EpisodeBookkeeping(r, dones, infos, i) ==
    IF i >= Dim(dones) THEN r
    ELSE IF ~dones[i] THEN EpisodeBookkeeping(r, dones, infos, i + 1)
    ELSE LET appended == [r EXCEPT !.episode_length_buffer = Append(@, infos[i].ep_length)]
         IN  IF infos[i].fake_done THEN EpisodeBookkeeping(appended, dones, infos, i + 1)
             ELSE EpisodeBookkeeping(
                      [appended EXCEPT !.ep_count = @ + 1, !.episode_score[i] = 0,
                                       !.episode_len[i] = 0],
                      dones, infos, i + 1)

\* one pass of "for t in range(self.N)"; e is the environment before the step,
\* stepped the environment after it
rollout_step(r, e, stepped, log_policy, actions) ==
    LET A == Dim(r.obs)
        t == r.t
        prev_obs == r.obs
        prev_time == r.time
        entry == stepped.log[Len(stepped.log)]
        ext_rewards == [a \in 0..A-1 |-> entry.rewards[a] + r.per_step_reward_noise]
        stepped_to == [r EXCEPT !.obs = entry.obs,
                                !.time = [a \in 0..A-1 |-> entry.infos[a].time]]
        \* info.get("raw_reward", ext_rewards): the default is the whole array
        raw_rewards == [a \in 0..A-1 |-> IF "raw_reward" \in DOMAIN entry.infos[a]
                                          THEN entry.infos[a].raw_reward ELSE ext_rewards]
        counted == [stepped_to EXCEPT !.episode_score = [a \in 0..A-1 |-> @[a] + raw_rewards[a]],
                                      !.episode_len = [a \in 0..A-1 |-> @[a] + 1]]
        kept == EpisodeBookkeeping(counted, entry.dones, entry.infos, 0)
    IN  IF \E a \in 0..A-1 : "raw_reward" \notin DOMAIN entry.infos[a]
        \* an array among the raw rewards: np.asarray or the in-place += raises ValueError
        THEN [stepped_to EXCEPT !.pc = "idle"]
        ELSE
        [kept EXCEPT !.all_obs[t] = StoredObs(prev_obs, entry.obs, r.use_compression),
                     !.done = entry.dones,
                     !.all_time[t] = prev_time,
                     !.actions[t] = actions,
                     !.ext_rewards[t] = ext_rewards,
                     !.log_policy[t] = log_policy,
                     !.terminals[t] = entry.dones,
                     !.t = t + 1]

\* mutant: the last row of the buffers is not written
rollout_finish_NoLastState(r) == [r EXCEPT !.pc = "done"]

\* "save the last state": all_obs[-1] and all_time[-1]
rollout_finish(r) ==
    [r EXCEPT !.all_obs[r.N] = StoredObs(r.obs, r.obs, r.use_compression),
              !.all_time[r.N] = r.time,
              !.pc = "done"]

\* args.use_compression and args.per_step_reward_noise
RolloutConfigs == {[use_compression |-> FALSE, per_step_reward_noise |-> 0],
                   [use_compression |-> TRUE, per_step_reward_noise |-> 1]}

\* Runner(...): no environment yet, state, counters and buffers are zeros
InitRollout ==
    /\ in_rewards = [t \in 0..0 |-> [a \in 0..0 |-> Zero]]
    /\ in_dones = [t \in 0..0 |-> [a \in 0..0 |-> 0]]
    /\ in_values = [t \in 0..0 |-> [a \in 0..0 |-> [h \in 0..0 |-> Zero]]]
    /\ in_final = [a \in 0..0 |-> [h \in 0..0 |-> Zero]]
    /\ in_gamma = One
    /\ args_n_steps \in 1..MaxN
    /\ op = [name |-> "Runner"]
    /\ result = Ok(<<>>)
    /\ sa = [constructed |-> FALSE]
    /\ env = [created |-> FALSE]
    /\ \E A \in AgentCounts, config \in RolloutConfigs :
        LET N == args_n_steps
            zeros == [a \in 0..A-1 |-> 0]
        IN  runner = [constructed |-> TRUE, pc |-> "idle", t |-> 0, N |-> N,
                      use_compression |-> config.use_compression,
                      per_step_reward_noise |-> config.per_step_reward_noise,
                      obs |-> zeros, time |-> zeros,
                      done |-> [a \in 0..A-1 |-> FALSE],
                      episode_score |-> zeros, episode_len |-> zeros, ep_count |-> 0,
                      episode_length_buffer |-> <<>>,
                      all_obs |-> [t \in 0..N |-> zeros],
                      all_time |-> [t \in 0..N |-> zeros],
                      actions |-> [t \in 0..N-1 |-> zeros],
                      ext_rewards |-> [t \in 0..N-1 |-> zeros],
                      log_policy |-> [t \in 0..N-1 |-> zeros],
                      terminals |-> [t \in 0..N-1 |-> [a \in 0..A-1 |-> FALSE]]]

\* create_envs(): self.vec_env is set; the environments have not been reset
CreateEnvs ==
    /\ runner.constructed /\ runner.pc = "idle"
    /\ ~env.created
    /\ LET A == Dim(runner.obs)
       IN  env' = [created |-> TRUE, reset |-> FALSE, clock |-> 0, obs |-> EnvObs(0, A),
                   time |-> [a \in 0..A-1 |-> 0], log |-> <<>>]
    /\ op' = [name |-> "create_envs"]
    /\ result' = Ok(<<>>)
    /\ UNCHANGED <<inputs, sa, runner>>

\* vec_env.reset(): fresh observations
VecEnvReset(e) ==
    [e EXCEPT !.reset = TRUE, !.clock = @ + 1, !.obs = EnvObs(e.clock + 1, Dim(e.obs)),
              !.time = [a \in DOMAIN e.time |-> 0]]

\* the assignments of Runner.reset, obs being what vec_env.reset() returned
reset(r, obs) ==
    [r EXCEPT !.obs = obs,
              !.time = [a \in DOMAIN r.time |-> 0],
              !.done = [a \in DOMAIN r.done |-> FALSE],
              !.episode_score = [a \in DOMAIN r.obs |-> 0],
              !.episode_len = [a \in DOMAIN r.obs |-> 0],
              !.episode_length_buffer = <<1000>>,
              !.pc = "idle"]

\* Runner.reset(): asserts that the environment exists
Reset ==
    /\ runner.constructed /\ runner.pc \in {"idle", "done"}
    /\ op' = [name |-> "reset"]
    /\ IF ~env.created
       THEN /\ result' = Raises("AssertionError")
            /\ UNCHANGED <<runner, env>>
       ELSE /\ env.clock < MaxSteps
            /\ env' = VecEnvReset(env)
            /\ runner' = reset(runner, env'.obs)
            /\ result' = Ok(<<>>)
    /\ UNCHANGED <<inputs, sa>>

\* generate_rollout is entered: it asserts that the environment exists, nothing else
StartRollout ==
    /\ runner.constructed /\ runner.pc \in {"idle", "done"}
    /\ op' = [name |-> "generate_rollout", before |-> runner]
    /\ IF ~env.created
       THEN /\ result' = Raises("AssertionError")
            /\ UNCHANGED runner
       ELSE /\ env.clock + runner.N <= MaxSteps
            /\ runner' = [runner EXCEPT !.pc = "loop", !.t = 0]
            /\ result' = Ok(<<>>)
    /\ UNCHANGED <<inputs, sa, env>>

\* one pass of the loop.  What vec_env.step does to environments that were never
\* reset is the library's affair: it steps them, or it raises and the rollout ends.
RolloutStep ==
    /\ runner.constructed /\ runner.pc = "loop" /\ runner.t < runner.N
    /\ \/ /\ \E kinds \in KindArrays(Dim(runner.obs)), shift \in {0, 1} :
               LET log_policy == LogPolicy(runner.obs)
                   actions == SampleActions(log_policy, shift)
                   stepped == VecEnvStep(env, actions, kinds)
               IN  /\ env' = stepped
                   /\ runner' = rollout_step(runner, env, stepped, log_policy, actions)
          /\ result' = IF runner'.pc = "idle" THEN Raises("ValueError") ELSE result
       \/ /\ ~env.reset /\ env.log = <<>>
          /\ runner' = [runner EXCEPT !.pc = "idle"]
          /\ result' = Raises("Exception")
          /\ UNCHANGED env
    /\ UNCHANGED <<inputs, op, sa>>

FinishRollout ==
    /\ runner.constructed /\ runner.pc = "loop" /\ runner.t = runner.N
    /\ runner' = rollout_finish(runner)
    /\ UNCHANGED <<inputs, op, result, sa, env>>

NextRollout == CreateEnvs \/ Reset \/ StartRollout \/ RolloutStep \/ FinishRollout

SpecRollout == InitRollout /\ [][NextRollout]_vars

(***************************************************************************)
(* Runner.calculate_sampled_returns: the checks made on entry, then the     *)
(* value model's forward pass and the return estimator.  Arrays are given   *)
(* by their shapes; the calls made are logged in the outcome.               *)
(***************************************************************************)
\* utils.is_sorted
is_sorted(xs) == \A i \in 1..Len(xs)-1 : xs[i] <= xs[i+1]

\* obs[:-1].shape
AllButLastShape(shape) == <<IF shape[1] > 0 THEN shape[1] - 1 ELSE 0>> \o Tail(shape)

\* lines 930-963: the name of the exception raised on entry, "none" when every check passes
SampledReturnsChecks(required_horizons, obs_shape, rewards_shape, dones_shape, value_sample_horizons, current_horizon) ==
    LET s == AllButLastShape(obs_shape)
        N == s[1]
        A == s[2]
        state_shape == SubSeq(s, 3, Len(s))
    IN  IF ~is_sorted(required_horizons) THEN "AssertionError"
        ELSE IF Len(s) < 2 THEN "ValueError"
        ELSE IF obs_shape # <<N + 1, A>> \o state_shape THEN "AssertionError"
        ELSE IF rewards_shape # <<N, A>> THEN "AssertionError"
        ELSE IF dones_shape # <<N, A>> THEN "AssertionError"
        ELSE IF Len(value_sample_horizons) = 0 THEN "IndexError"
        ELSE IF ~(value_sample_horizons[1] = 0
                  /\ value_sample_horizons[Len(value_sample_horizons)] = current_horizon)
             THEN "AssertionError"
        ELSE "none"

\* mutant: the value model and the estimator are called before the checks
calculate_sampled_returns_CallsFirst(self, required_horizons, obs_shape, rewards_shape, dones_shape, value_sample_horizons) ==
    LET error == SampledReturnsChecks(required_horizons, obs_shape, rewards_shape, dones_shape,
                                      value_sample_horizons, self.current_horizon)
    IN  [ok |-> error = "none", error |-> error,
         val |-> IF error = "none" THEN [horizons |-> required_horizons] ELSE <<>>,
         calls |-> <<"get_value_estimates", "get_return_estimate">>]

calculate_sampled_returns(self, required_horizons, obs_shape, rewards_shape, dones_shape, value_sample_horizons) ==
    LET error == SampledReturnsChecks(required_horizons, obs_shape, rewards_shape, dones_shape,
                                      value_sample_horizons, self.current_horizon)
    IN  IF error # "none"
        THEN [ok |-> FALSE, error |-> error, val |-> <<>>, calls |-> <<>>]
        ELSE [ok |-> TRUE, error |-> "none", val |-> [horizons |-> required_horizons],
              calls |-> <<"get_value_estimates", "get_return_estimate">>]

RequiredHorizons == {<<>>, <<1>>, <<1, 2>>, <<2, 1>>}
ObsShapes == {<<2>>, <<0, 1>>, <<2, 1>>, <<3, 1>>, <<3, 2>>, <<3, 2, 1>>}
RewardShapes == {<<2>>, <<1, 1>>, <<2, 1>>, <<2, 2>>}
ValueSampleHorizons == {<<>>, <<0>>, <<0, 1>>, <<0, 2>>, <<1, 2>>, <<0, 2, 1>>}
CurrentHorizons == {1, 2}

InitSampled ==
    /\ in_rewards = [t \in 0..0 |-> [a \in 0..0 |-> Zero]]
    /\ in_dones = [t \in 0..0 |-> [a \in 0..0 |-> 0]]
    /\ in_values = [t \in 0..0 |-> [a \in 0..0 |-> [h \in 0..0 |-> Zero]]]
    /\ in_final = [a \in 0..0 |-> [h \in 0..0 |-> Zero]]
    /\ in_gamma = One
    /\ args_n_steps = 1
    /\ op = NoCall
    /\ result = Ok(<<>>)
    /\ sa = [constructed |-> FALSE]
    /\ env = [created |-> FALSE]
    /\ runner \in [constructed : {TRUE}, current_horizon : CurrentHorizons]

CallSampledReturns ==
    /\ op.name = "none"
    /\ \E required_horizons \in RequiredHorizons, obs_shape \in ObsShapes, rewards_shape \in RewardShapes,
          dones_shape \in RewardShapes, value_sample_horizons \in ValueSampleHorizons :
           Returned([name |-> "calculate_sampled_returns", required_horizons |-> required_horizons,
                     obs_shape |-> obs_shape, rewards_shape |-> rewards_shape, dones_shape |-> dones_shape,
                     value_sample_horizons |-> value_sample_horizons],
                    calculate_sampled_returns(runner, required_horizons, obs_shape, rewards_shape,
                                              dones_shape, value_sample_horizons))

NextSampled == CallSampledReturns

SpecSampled == InitSampled /\ [][NextSampled]_vars

(***************************************************************************)
(* Runner.get_tvf_rediscounted_value_estimates: the horizon grid handed to *)
(* the value model.  The value estimates themselves are left out: the      *)
(* outcome records the calls made and their horizons argument.             *)
(***************************************************************************)
MaxCurrentHorizon == 810

c_1 == 7

c_2 == 400

\* abs(x - y) < 1e-8, without cross multiplication
NoRediscounting(x, y) ==
    LET d == RAbs(RSub(x, y))
    IN  \/ d[1] = 0
        \/ d[2] \div d[1] > 100000000
        \/ (d[2] \div d[1] = 100000000 /\ d[2] % d[1] > 0)

\* math.ceil(a / b) for positive integers
CeilDiv(a, b) == (a + b - 1) \div b

\* lines 1826-1829; round() rounds halves to even, as np.rint does
EffectiveHorizon(new_gamma, current_horizon) ==
    IF ~RLess(new_gamma, One) THEN current_horizon
    ELSE Min(Rint(RDiv(Q(c_1, 1), RSub(One, new_gamma))), current_horizon)

\* mutant: the grid is counted upwards from 1
HorizonGrid_Forwards(effective_horizon, step_skip) ==
    [i \in 1..CeilDiv(effective_horizon, step_skip) |-> 1 + (i - 1) * step_skip]

\* np.asarray(range(effective_horizon, 0, -step_skip))[::-1]
HorizonGrid(effective_horizon, step_skip) ==
    LET count == CeilDiv(effective_horizon, step_skip)
        backwards == [i \in 1..count |-> effective_horizon - (i - 1) * step_skip]
    IN  [i \in 1..count |-> backwards[count + 1 - i]]

get_tvf_rediscounted_value_estimates(self, rollout, new_gamma) ==
    IF NoRediscounting(new_gamma, self.tvf_gamma)
    THEN Ok([rediscounted |-> FALSE,
             calls |-> <<[name |-> "get_value_estimates", horizons |-> <<>>]>>])
    ELSE LET effective_horizon == EffectiveHorizon(new_gamma, rollout.current_horizon)
             step_skip == CeilDiv(effective_horizon, c_2)
             horizons == HorizonGrid(effective_horizon, step_skip)
         IN  Ok([rediscounted |-> TRUE,
                 calls |-> <<[name |-> "get_value_estimates", horizons |-> horizons],
                             [name |-> "get_rediscounted_value_estimate", horizons |-> horizons,
                              old_gamma |-> self.tvf_gamma, new_gamma |-> new_gamma]>>])

\* args.tvf_gamma, and the gammas asked for
TvfGammaSettings == {Q(99, 100), One}

NewGammas == {Q(1, 2), Q(99, 100), Q(999, 1000), One}

InitTvfRediscount ==
    /\ in_rewards = [t \in 0..0 |-> [a \in 0..0 |-> Zero]]
    /\ in_dones = [t \in 0..0 |-> [a \in 0..0 |-> 0]]
    /\ in_values = [t \in 0..0 |-> [a \in 0..0 |-> [h \in 0..0 |-> Zero]]]
    /\ in_final = [a \in 0..0 |-> [h \in 0..0 |-> Zero]]
    /\ in_gamma = One
    /\ args_n_steps = 1
    /\ op = NoCall
    /\ result = Ok(<<>>)
    /\ sa = [constructed |-> FALSE]
    /\ env = [created |-> FALSE]
    /\ runner \in [constructed : {TRUE}, current_horizon : 1..MaxCurrentHorizon,
                   tvf_gamma : TvfGammaSettings]

CallTvfRediscounted ==
    /\ op.name = "none"
    /\ \E new_gamma \in NewGammas :
           Returned([name |-> "get_tvf_rediscounted_value_estimates", new_gamma |-> new_gamma],
                    get_tvf_rediscounted_value_estimates(runner, runner, new_gamma))

NextTvfRediscount == CallTvfRediscounted

SpecTvfRediscount == InitTvfRediscount /\ [][NextTvfRediscount]_vars


(***************************************************************************)
(* Runner.current_horizon and Runner._auto_horizon.  Numbers are exact     *)
(* fractions; the episode-length buffers are chosen so that their standard *)
(* deviation is one too.                                                   *)
(***************************************************************************)
Max(x, y) == IF x > y THEN x ELSE y

RMax(x, y) == IF RLess(x, y) THEN y ELSE x

RMin(x, y) == IF RLess(y, x) THEN y ELSE x

\* mutant: the lower limit is applied last
RClip_LowerLast(x, lo, hi) == RMax(RMin(x, hi), lo)

\* np.clip(x, lo, hi) = minimum(maximum(x, lo), hi)
RClip(x, lo, hi) == RMin(RMax(x, lo), hi)

\* int(x): truncation towards zero
IntOf(x) == IF x[1] >= 0 THEN x[1] \div x[2] ELSE -((-x[1]) \div x[2])

\* the root of a perfect square up to 1000^2
ISqrt(n) == CHOOSE r \in 0..1000 : r * r = n

\* np.mean and np.std (population standard deviation) of a non-empty buffer
Mean(buffer) == RDiv(SeqSum([i \in 1..Len(buffer) |-> Q(buffer[i], 1)]), Q(Len(buffer), 1))

Std(buffer) ==
    LET m == Mean(buffer)
        variance == RDiv(SeqSum([i \in 1..Len(buffer) |->
                                    RMul(RSub(Q(buffer[i], 1), m), RSub(Q(buffer[i], 1), m))]),
                         Q(Len(buffer), 1))
    IN  <<ISqrt(variance[1]), ISqrt(variance[2])>>

_auto_horizon(self) ==
    IF self.auto_strategy = "episode_length"
    THEN IF Len(self.episode_length_buffer) = 0 THEN Ok(Zero)
         ELSE Ok(RAdd(Mean(self.episode_length_buffer),
                      RMul(Q(2, 1), Std(self.episode_length_buffer))))
    ELSE IF self.auto_strategy = "agent_age_slow" THEN Ok(RMul(Q(1, 1000), Q(self.step, 1)))
    ELSE IF self.auto_strategy \in {"sa_return", "sa_reward"} THEN Ok(self.horizon_sa.neighbour)
    ELSE Raises("ValueError")

current_horizon(self) ==
    IF self.auto_horizon
    THEN LET min_horizon == Max(Max(128, self.tvf_horizon_samples), self.tvf_value_samples)
             auto == _auto_horizon(self)
         IN  IF ~auto.ok THEN auto
             ELSE Ok(IntOf(RClip(RMul(auto.val, Q(3, 1)), Q(min_horizon, 1), self.tvf_max_horizon)))
    ELSE Ok(IntOf(self.tvf_max_horizon))

AutoStrategies == {"episode_length", "agent_age_slow", "sa_return", "sa_reward", "off"}
TvfMaxHorizons == {Q(100, 1), Q(128, 1), Q(200, 1), Q(401, 2), Q(1000, 1)}
SampleCounts == {<<64, 64>>, <<150, 64>>, <<64, 150>>}
LengthBuffers == {<<>>, <<1000>>, <<1000, 10>>, <<40, 40>>, <<45, 48>>}
StepCounts == {0, 45000, 66500, 1000000}
Neighbours == {Q(1, 2), Q(45, 1), Q(133, 2), Q(1000, 1)}

InitHorizon ==
    /\ in_rewards = [t \in 0..0 |-> [a \in 0..0 |-> Zero]]
    /\ in_dones = [t \in 0..0 |-> [a \in 0..0 |-> 0]]
    /\ in_values = [t \in 0..0 |-> [a \in 0..0 |-> [h \in 0..0 |-> Zero]]]
    /\ in_final = [a \in 0..0 |-> [h \in 0..0 |-> Zero]]
    /\ in_gamma = One
    /\ args_n_steps = 1
    /\ op = NoCall
    /\ result = Ok(<<>>)
    /\ sa = [constructed |-> FALSE]
    /\ env = [created |-> FALSE]
    /\ \E auto_horizon \in BOOLEAN, auto_strategy \in AutoStrategies, samples \in SampleCounts,
          tvf_max_horizon \in TvfMaxHorizons, buffer \in LengthBuffers, step \in StepCounts,
          neighbour \in Neighbours :
           runner = [constructed |-> TRUE, auto_horizon |-> auto_horizon,
                     auto_strategy |-> auto_strategy, tvf_max_horizon |-> tvf_max_horizon,
                     tvf_horizon_samples |-> samples[1], tvf_value_samples |-> samples[2],
                     episode_length_buffer |-> buffer, step |-> step,
                     horizon_sa |-> [neighbour |-> neighbour]]

CallCurrentHorizon ==
    /\ op.name = "none"
    /\ Returned([name |-> "current_horizon"], current_horizon(runner))

NextHorizon == CallCurrentHorizon

SpecHorizon == InitHorizon /\ [][NextHorizon]_vars


(***************************************************************************)
(* src/runner.py: Job and run_next_experiment.  Here runner holds the      *)
(* module's job_list and env the run folders on disk, one record per job:  *)
(* how many folders match the job's name, whether params.txt exists, the   *)
(* lock file (absent, fresh, or not touched for more than 30 minutes) and  *)
(* the completed epochs of progress.txt.                                   *)
(***************************************************************************)
MaxEpochs == 2

MaxRuns == 2

JobIds == 0..2

\* Job.get_completed_epochs
get_completed_epochs(folder) == folder.completed

\* Job.get_status
get_status(folder) ==
    IF folder.paths >= 2 THEN "clash"
    ELSE IF folder.paths = 0 THEN ""
    ELSE LET started == IF folder.params THEN "pending" ELSE ""
             locked == IF folder.lock # "none" THEN "running" ELSE started
             finished == IF folder.completed >= MaxEpochs THEN "done" ELSE locked
         IN  IF finished = "running" /\ folder.lock = "old" THEN "stale" ELSE finished

\* Job._sort_key
SortKey(job, folder) ==
    LET boosted == job.priority + (IF get_status(folder) = "running" THEN 1000 ELSE 0)
        priority == boosted - get_completed_epochs(folder)
    IN  <<-priority, get_completed_epochs(folder), job.experiment_name, job.id>>

\* the order of Python tuples
RECURSIVE TupleLess(_, _)
TupleLess(x, y) ==
    IF x = <<>> \/ y = <<>> THEN x = <<>> /\ y # <<>>
    ELSE IF x[1] # y[1] THEN x[1] < y[1]
    ELSE TupleLess(Tail(x), Tail(y))

\* Job.__lt__
JobLess(a, b, runs) == TupleLess(SortKey(a, runs[a.id]), SortKey(b, runs[b.id]))

RECURSIVE InsertJob(_, _, _)
InsertJob(job, sorted, runs) ==
    IF sorted = <<>> THEN <<job>>
    ELSE IF JobLess(job, sorted[1], runs) THEN <<job>> \o sorted
    ELSE <<sorted[1]>> \o InsertJob(job, Tail(sorted), runs)

\* mutant: the list is left in insertion order
SortJobs_Unsorted(jobs, runs) == jobs

\* job_list.sort()
RECURSIVE SortJobs(_, _)
SortJobs(jobs, runs) ==
    IF jobs = <<>> THEN <<>>
    ELSE InsertJob(jobs[Len(jobs)], SortJobs(SubSeq(jobs, 1, Len(jobs) - 1), runs), runs)

\* the loop of run_next_experiment: the jobs it runs, at most the first that qualifies
RECURSIVE NextJob(_, _, _)
NextJob(jobs, accepted, runs) ==
    IF jobs = <<>> THEN <<>>
    ELSE IF jobs[1].experiment_name \notin accepted THEN NextJob(Tail(jobs), accepted, runs)
    ELSE IF get_status(runs[jobs[1].id]) \in {"", "pending"} THEN <<jobs[1].id>>
    ELSE NextJob(Tail(jobs), accepted, runs)

\* what the training process started by Job.run leaves behind
RunOutcomes == {"chunk", "crash", "error"}

AfterRun(folder, outcome) ==
    IF outcome = "chunk"
    THEN [paths |-> 1, params |-> TRUE, lock |-> "none",
          completed |-> Min(folder.completed + 1, MaxEpochs)]
    ELSE IF outcome = "crash"
    THEN [paths |-> 1, params |-> TRUE, lock |-> "fresh", completed |-> folder.completed]
    ELSE folder

\* the folder states a job is found in
FolderStates ==
    {[paths |-> 0, params |-> FALSE, lock |-> "none", completed |-> 0],
     [paths |-> 1, params |-> FALSE, lock |-> "none", completed |-> 0],
     [paths |-> 1, params |-> TRUE, lock |-> "none", completed |-> 1],
     [paths |-> 1, params |-> TRUE, lock |-> "fresh", completed |-> 0],
     [paths |-> 1, params |-> TRUE, lock |-> "old", completed |-> 1],
     [paths |-> 1, params |-> TRUE, lock |-> "none", completed |-> MaxEpochs],
     [paths |-> 2, params |-> TRUE, lock |-> "none", completed |-> 0]}

Priorities == {<<0, 0, 0>>, <<0, 2, 1>>}

\* filter_jobs: None, or lambda x: x.experiment_name == experiment_name
Filters == {{0, 1}, {1}}

InitJobs ==
    /\ in_rewards = [t \in 0..0 |-> [a \in 0..0 |-> Zero]]
    /\ in_dones = [t \in 0..0 |-> [a \in 0..0 |-> 0]]
    /\ in_values = [t \in 0..0 |-> [a \in 0..0 |-> [h \in 0..0 |-> Zero]]]
    /\ in_final = [a \in 0..0 |-> [h \in 0..0 |-> Zero]]
    /\ in_gamma = One
    /\ args_n_steps = 1
    /\ op = [name |-> "none", calls |-> 0]
    /\ result = Ok(<<>>)
    /\ sa = [constructed |-> FALSE]
    /\ \E priorities \in Priorities :
           runner = [constructed |-> FALSE,
                     job_list |-> [i \in 1..3 |-> [id |-> i - 1, experiment_name |-> (i - 1) % 2,
                                                   priority |-> priorities[i]]]]
    /\ \E runs \in [JobIds -> FolderStates] : env = [created |-> FALSE, runs |-> runs]

RunNextExperiment ==
    /\ op.calls < MaxRuns
    /\ \E accepted \in Filters, outcome \in RunOutcomes :
        LET sorted == SortJobs(runner.job_list, env.runs)
            started == NextJob(sorted, accepted, env.runs)
        IN  /\ runner' = [runner EXCEPT !.job_list = sorted]
            /\ env' = IF started = <<>> THEN env
                      ELSE [env EXCEPT !.runs[started[1]] = AfterRun(@, outcome)]
            /\ op' = [name |-> "run_next_experiment", calls |-> op.calls + 1,
                      accepted |-> accepted, started |-> started, before |-> env.runs]
            /\ result' = IF started # <<>> /\ outcome = "error" THEN Raises("Exception")
                         ELSE Ok(<<>>)
            /\ UNCHANGED <<inputs, sa>>

\* more than 30 minutes pass without the lock files being touched
Wait ==
    /\ \E id \in JobIds : env.runs[id].lock = "fresh"
    /\ env' = [env EXCEPT !.runs = [id \in JobIds |->
                   IF @[id].lock = "fresh" THEN [@[id] EXCEPT !.lock = "old"] ELSE @[id]]]
    /\ UNCHANGED <<inputs, op, result, sa, runner>>

\* somebody deletes a lock file
RemoveLock ==
    /\ \E id \in JobIds :
        /\ env.runs[id].lock # "none"
        /\ env' = [env EXCEPT !.runs[id].lock = "none"]
    /\ UNCHANGED <<inputs, op, result, sa, runner>>

NextJobs == RunNextExperiment \/ Wait \/ RemoveLock

SpecJobs == InitJobs /\ [][NextJobs]_vars


(***************************************************************************)
(* Runner.detached_batch_forward.  obs is a sequence of rows, compressed   *)
(* or not; aux_features is None or a sequence of the same length.  The     *)
(* outcome holds the output dictionary and the calls of model.forward.     *)
(***************************************************************************)
MaxBatch == 4

\* aux_features=None, and aux_features given as an array
None == [given |-> FALSE, rows |-> <<>>]

Given(rows) == [given |-> TRUE, rows |-> rows]

\* python's seq[start:end] for 0 <= start <= end
Slice(seq, start, end) == SubSeq(seq, start + 1, Min(end, Len(seq)))

\* the rows model.forward returns for one batch, under each key
ModelForward(obs, aux_features) ==
    [log_policy |-> [i \in 1..Len(obs) |-> -obs[i]],
     value |-> [i \in 1..Len(obs) |->
                   IF aux_features = None THEN obs[i] ELSE obs[i] + aux_features.rows[i]]]

RECURSIVE Concatenated(_, _, _)
Concatenated(batch_results, k, n) ==
    IF n = 0 THEN <<>> ELSE Concatenated(batch_results, k, n - 1) \o batch_results[n].val[k]

\* mutant: the batch results are joined last to first
TorchCat_Reversed(batch_results, k) ==
    Concatenated([i \in 1..Len(batch_results) |-> batch_results[Len(batch_results) + 1 - i]],
                 k, Len(batch_results))

\* torch.cat(tensors=[batch_result[k] for batch_result in batch_results], dim=0)
TorchCat(batch_results, k) == Concatenated(batch_results, k, Len(batch_results))

RECURSIVE AllCalls(_, _)
AllCalls(batch_results, n) ==
    IF n = 0 THEN <<>> ELSE AllCalls(batch_results, n - 1) \o batch_results[n].calls

RECURSIVE detached_batch_forward(_, _, _)
detached_batch_forward(self, obs, aux_features) ==
    LET B == Len(obs)
        max_batch_size == self.max_micro_batch_size
    IN  IF B > max_batch_size
        THEN LET batches == CeilDiv(B, max_batch_size)
                 batch_results == [batch_idx \in 1..batches |->
                     LET batch_start == (batch_idx - 1) * max_batch_size
                         batch_end == Min(batch_idx * max_batch_size, B)
                     IN  detached_batch_forward(self, Slice(obs, batch_start, batch_end),
                             IF aux_features # None
                             THEN Given(Slice(aux_features.rows, batch_start, batch_end))
                             ELSE None)]
             IN  [ok |-> TRUE,
                  val |-> [k \in DOMAIN batch_results[1].val |-> TorchCat(batch_results, k)],
                  calls |-> AllCalls(batch_results, batches)]
        ELSE LET rows == IF self.use_compression
                         THEN [i \in 1..B |-> Decompress(obs[i])] ELSE obs
             IN  [ok |-> TRUE, val |-> ModelForward(rows, aux_features),
                  calls |-> <<[obs |-> rows, aux_features |-> aux_features]>>]

\* observation batches of up to MaxBatch rows
ObsBatches == UNION {[1..B -> {1, 2}] : B \in 0..MaxBatch}

\* args.max_micro_batch_size
MicroBatchSizes == 1..3

InitForward ==
    /\ in_rewards = [t \in 0..0 |-> [a \in 0..0 |-> Zero]]
    /\ in_dones = [t \in 0..0 |-> [a \in 0..0 |-> 0]]
    /\ in_values = [t \in 0..0 |-> [a \in 0..0 |-> [h \in 0..0 |-> Zero]]]
    /\ in_final = [a \in 0..0 |-> [h \in 0..0 |-> Zero]]
    /\ in_gamma = One
    /\ args_n_steps = 1
    /\ op = NoCall
    /\ result = Ok(<<>>)
    /\ sa = [constructed |-> FALSE]
    /\ env = [created |-> FALSE]
    /\ runner \in [constructed : {TRUE}, max_micro_batch_size : MicroBatchSizes,
                   use_compression : BOOLEAN]

CallDetachedBatchForward ==
    /\ op.name = "none"
    /\ \E rows \in ObsBatches, with_aux \in BOOLEAN :
        LET obs == IF runner.use_compression THEN [i \in 1..Len(rows) |-> BufferSlot(rows[i])]
                   ELSE rows
            aux_features == IF with_aux THEN Given([i \in 1..Len(rows) |-> 10 * i]) ELSE None
        IN  Returned([name |-> "detached_batch_forward", obs |-> obs, rows |-> rows,
                      aux_features |-> aux_features],
                     detached_batch_forward(runner, obs, aux_features))

NextForward == CallDetachedBatchForward

SpecForward == InitForward /\ [][NextForward]_vars


(***************************************************************************)
(* Properties.                                                             *)
(***************************************************************************)
NN == Dim(in_rewards)
AA == Dim(in_final)
HH == Dim(in_final[0])
AllCurves == Concat(in_values, in_final)
FinalScalar == LastHorizon(in_final)

\* C1: calculate_bootstrapped_returns satisfies, for every t and agent a,
\* returns[t,a] = rewards[t,a] + gamma * returns[t+1,a] * (1 - dones[t,a]),
\* with returns[N,a] = final_value_estimate[a].
C1_BootstrappedRecursion ==
    op.name = "calculate_bootstrapped_returns" =>
        /\ result.ok
        /\ \A t \in 0..NN-1, a \in 0..AA-1 :
            LET next == IF t = NN - 1 THEN FinalScalar[a] ELSE result.val[t + 1][a]
            IN  result.val[t][a] =
                    RAdd(in_rewards[t][a], RMul(RMul(in_gamma, next), OneMinus(in_dones[t][a])))

C1_Witness ==
    /\ op.name = "calculate_bootstrapped_returns"
    /\ NN >= 2
    /\ \E a \in 0..AA-1 :
        /\ in_dones[0][a] = 0
        /\ result.val[1][a] # Zero
        /\ result.val[0][a] # in_rewards[0][a]

\* the one-step TD residual of timestep t, agent a
TdResidual(t, a) ==
    LET value_next == IF t = NN - 1 THEN FinalScalar[a] ELSE ScalarValues[t + 1][a]
    IN  RSub(RAdd(in_rewards[t][a],
                  RMul(RMul(in_gamma, value_next), OneMinus(in_dones[t][a]))),
             ScalarValues[t][a])

\* C2: calculate_gae with lamb = 0 and normalize = False returns exactly the
\* one-step TD residual delta[t] at every t and agent.
C2_GaeZeroLambda ==
    (op.name = "calculate_gae" /\ op.lamb = Zero /\ ~op.normalize) =>
        /\ result.ok
        /\ \A t \in 0..NN-1, a \in 0..AA-1 : result.val[t][a] = TdResidual(t, a)

C2_Witness ==
    /\ op.name = "calculate_gae" /\ op.lamb = Zero /\ ~op.normalize
    /\ NN >= 2
    /\ \E a \in 0..AA-1 :
        /\ in_dones[0][a] = 0
        /\ result.val[1][a] # Zero
        /\ result.val[0][a] # Zero

\* C3: calculate_gae with lamb = 1 and normalize = False equals
\* calculate_bootstrapped_returns(...)[t] - value[t] at every t and agent, for
\* every pattern of done flags.
C3_GaeOneLambda ==
    (op.name = "calculate_gae" /\ op.lamb = One /\ ~op.normalize) =>
        LET returns == calculate_bootstrapped_returns(in_rewards, in_dones, FinalScalar, in_gamma)
        IN  /\ result.ok
            /\ \A t \in 0..NN-1, a \in 0..AA-1 :
                result.val[t][a] = RSub(returns[t][a], ScalarValues[t][a])

C3_Witness ==
    /\ op.name = "calculate_gae" /\ op.lamb = One /\ ~op.normalize
    /\ NN >= 2
    /\ \E a \in 0..AA-1 :
        /\ in_dones[0][a] = 0
        /\ in_dones[1][a] = 1
        /\ result.val[1][a] # Zero
        /\ result.val[0][a] # TdResidual(0, a)

\* what the call `call` returns on the arrays r, d, v, f
Rerun(call, r, d, v, f) ==
    CASE call.name = "calculate_bootstrapped_returns" ->
            calculate_bootstrapped_returns(r, d, LastHorizon(f), in_gamma)
      [] call.name = "calculate_gae" ->
            calculate_gae(r, [t \in DOMAIN v |-> LastHorizon(v[t])], LastHorizon(f), d,
                          in_gamma, call.lamb, call.normalize)
      [] call.name = "calculate_tvf_td" ->
            calculate_tvf_td(r, d, v, f, in_gamma)
      [] call.name = "calculate_tvf_n_step" ->
            calculate_tvf_n_step(r, d, v, f, in_gamma, call.n_step).val

\* the horizons of a curve the call reads: the scalar estimators see the last one only
HorizonsRead(call) ==
    IF call.name \in {"calculate_bootstrapped_returns", "calculate_gae"} THEN {HH - 1} ELSE 0..HH-1

\* the inputs that differ from the current ones in one entry of agent a: a reward
\* or done flag at a timestep in ts, or a value at a timestep in ts (N = the final estimate)
Changed(ts, a, hs) ==
    {[r |-> [in_rewards EXCEPT ![t][a] = RAdd(@, One)], d |-> in_dones,
      v |-> in_values, f |-> in_final] : t \in ts \cap (0..NN-1)}
    \cup
    {[r |-> in_rewards, d |-> [in_dones EXCEPT ![t][a] = 1 - @],
      v |-> in_values, f |-> in_final] : t \in ts \cap (0..NN-1)}
    \cup
    {[r |-> in_rewards, d |-> in_dones,
      v |-> [in_values EXCEPT ![c[1]][a][c[2]] = RAdd(@, One)], f |-> in_final] :
        c \in (ts \cap (0..NN-1)) \X hs}
    \cup
    {[r |-> in_rewards, d |-> in_dones,
      v |-> in_values, f |-> [in_final EXCEPT ![a][h] = RAdd(@, One)]] :
        h \in IF NN \in ts THEN hs ELSE {}}

\* the output at every (t, a) with dones[t,a] = 1 is the same on every input
\* that differs in an entry of agent a later than t
DoneBoundary ==
    \A a \in 0..AA-1, t2 \in 1..NN :
        (\E t \in 0..t2-1 : in_dones[t][a] = 1) =>
            \A x \in Changed({t2}, a, HorizonsRead(op)) :
                LET out == Rerun(op, x.r, x.d, x.v, x.f)
                IN  \A t \in 0..t2-1 : in_dones[t][a] = 1 => out[t][a] = result.val[t][a]

DoneBoundaryCalls ==
    {"calculate_gae", "calculate_bootstrapped_returns", "calculate_tvf_td", "calculate_tvf_n_step"}

\* C4 as stated: in calculate_gae, calculate_bootstrapped_returns,
\* calculate_tvf_td and calculate_tvf_n_step, whenever dones[t,a] = 1 the
\* output at (t,a) is unchanged by any change to the value at t+1 or to any
\* reward, done flag or value later than t for that agent.
C4_DoneBoundaryAnyCall ==
    op.name \in DoneBoundaryCalls => (result.ok /\ DoneBoundary)

\* C4 (amended): the same, with calculate_gae called with normalize = False.
C4_DoneBoundary ==
    (op.name \in DoneBoundaryCalls /\ ~op.normalize) => (result.ok /\ DoneBoundary)

C4_Witness ==
    /\ op.name = "calculate_tvf_n_step" /\ op.n_step >= 2
    /\ NN >= 2 /\ HH >= 3
    /\ \E a \in 0..AA-1 :
        /\ in_dones[0][a] = 1
        /\ in_rewards[1][a] # Zero
        /\ in_values[1][a][1] # Zero
        /\ result.val[1][a][2] # Zero

\* C5 as stated: calculate_tvf_td gives, for every t, a and h in 1..H-1
\* (h = 1 included), returns[t,a,h] = rewards[t,a] + gamma * (1 - dones[t,a]) *
\* values[t+1,a,h-1], whatever the value curve holds.
C5_TdTargetAnyCurve ==
    op.name = "calculate_tvf_td" =>
        \A t \in 0..NN-1, a \in 0..AA-1, h \in 1..HH-1 :
            result.val[t][a][h] =
                RAdd(in_rewards[t][a],
                     RMul(RMul(in_gamma, OneMinus(in_dones[t][a])), AllCurves[t + 1][a][h - 1]))

\* C5 (amended): for h in 2..H-1 the target is rewards[t,a] + gamma *
\* (1 - dones[t,a]) * values[t+1,a,h-1]; for h = 1 it is rewards[t,a] alone (the
\* horizon-0 entry of the curve is never read); for h = 0 it is 0.
C5_TdTarget ==
    op.name = "calculate_tvf_td" =>
        /\ result.ok
        /\ \A t \in 0..NN-1, a \in 0..AA-1, h \in 0..HH-1 :
            result.val[t][a][h] =
                IF h = 0 THEN Zero
                ELSE IF h = 1 THEN in_rewards[t][a]
                ELSE RAdd(in_rewards[t][a],
                          RMul(RMul(in_gamma, OneMinus(in_dones[t][a])),
                               AllCurves[t + 1][a][h - 1]))

C5_Witness ==
    /\ op.name = "calculate_tvf_td"
    /\ HH >= 3
    /\ \E t \in 0..NN-1, a \in 0..AA-1 :
        /\ in_dones[t][a] = 0
        /\ AllCurves[t + 1][a][0] # Zero
        /\ AllCurves[t + 1][a][1] # Zero
        /\ result.val[t][a][1] = in_rewards[t][a]
        /\ result.val[t][a][2] # in_rewards[t][a]

\* C6: calculate_tvf_td's output at timestep t and horizon h depends only on
\* rewards[t], dones[t] and the values at timestep t+1, horizon h-1: a change
\* of a value at another horizon or another timestep, or of a reward or done
\* flag of another timestep, leaves returns[t,:,h] unchanged.
C6_TdDependency ==
    op.name = "calculate_tvf_td" =>
        \A a \in 0..AA-1, t2 \in 0..NN :
            /\ \A x \in Changed({t2}, a, {}) :
                LET out == calculate_tvf_td(x.r, x.d, x.v, x.f, in_gamma)
                IN  \A t \in 0..NN-1 : t # t2 => out[t] = result.val[t]
            /\ \A h2 \in 0..HH-1 :
                LET v2 == IF t2 < NN THEN [in_values EXCEPT ![t2][a][h2] = RAdd(@, One)]
                          ELSE in_values
                    f2 == IF t2 = NN THEN [in_final EXCEPT ![a][h2] = RAdd(@, One)]
                          ELSE in_final
                    out == calculate_tvf_td(in_rewards, in_dones, v2, f2, in_gamma)
                IN  \A t \in 0..NN-1, h \in 0..HH-1, b \in 0..AA-1 :
                        (t2 # t + 1 \/ h2 # h - 1) => out[t][b][h] = result.val[t][b][h]

C6_Witness ==
    /\ op.name = "calculate_tvf_td"
    /\ NN >= 2 /\ HH >= 3
    /\ \E t \in 0..NN-1, a \in 0..AA-1 :
        /\ in_dones[t][a] = 0
        /\ AllCurves[t + 1][a][2] # Zero
        /\ AllCurves[t][a][1] # Zero
        /\ result.val[t][a][2] # in_rewards[t][a]

\* C7: calculate_tvf_lambda with lamb = 0 returns the array calculate_tvf_td
\* returns on the same arguments, and with lamb = 1 the array calculate_tvf_mc
\* returns on them.
C7_LambdaBoundaries ==
    op.name = "calculate_tvf_lambda" =>
        /\ op.lamb = Zero =>
            result = Ok(calculate_tvf_td(in_rewards, in_dones, in_values, in_final, in_gamma))
        /\ op.lamb = One =>
            result = calculate_tvf_mc(in_rewards, in_dones, in_values, in_final, in_gamma)

C7_Witness ==
    /\ op.name = "calculate_tvf_lambda" /\ op.lamb = One
    /\ result.ok
    /\ NN >= 2 /\ HH >= 3
    /\ \E a \in 0..AA-1 :
        /\ in_dones[0][a] = 0
        /\ in_rewards[1][a] # Zero
        /\ result.val[0][a][2] # result.val[0][a][1]

\* product of gamma * (1 - done) over the k steps from t, for agent a
RECURSIVE Continuation(_, _, _)
Continuation(t, a, k) ==
    IF k = 0 THEN One
    ELSE RMul(Continuation(t, a, k - 1), RMul(in_gamma, OneMinus(in_dones[t + k - 1][a])))

\* discounted sum of the first k rewards from t, for agent a
RECURSIVE DiscountedRewards(_, _, _)
DiscountedRewards(t, a, k) ==
    IF k = 0 THEN Zero
    ELSE RAdd(DiscountedRewards(t, a, k - 1),
              RMul(Continuation(t, a, k - 1), in_rewards[t + k - 1][a]))

\* C8: calculate_tvf_n_step takes s = min(n_step, N - t, H - 1) real steps at
\* t; returns[t,:,0] = 0; for 1 <= h <= s returns[t,:,h] is the discounted sum
\* of the first h rewards; for h > s it is the s-step sum plus the product of
\* gamma * (1 - done) over the s steps times values[t+s,:,h-s]; and the slice
\* assignment gives what the per-horizon reference loop gives.
C8_NStepTargets ==
    op.name = "calculate_tvf_n_step" =>
        /\ result.ok
        /\ \A t \in 0..NN-1, a \in 0..AA-1, h \in 0..HH-1 :
            LET s == Min(Min(op.n_step, NN - t), HH - 1)
            IN  result.val[t][a][h] =
                    IF h = 0 THEN Zero
                    ELSE IF h <= s THEN DiscountedRewards(t, a, h)
                    ELSE RAdd(DiscountedRewards(t, a, s),
                              RMul(Continuation(t, a, s), AllCurves[t + s][a][h - s]))
        /\ result.val = calculate_tvf_n_step_reference(in_rewards, in_dones, in_values, in_final,
                                                       in_gamma, op.n_step)

C8_Witness ==
    /\ op.name = "calculate_tvf_n_step" /\ op.n_step = 1
    /\ NN >= 2 /\ HH >= 3
    /\ \E a \in 0..AA-1 :
        /\ in_dones[0][a] = 0
        /\ in_rewards[0][a] # Zero
        /\ in_values[1][a][1] # Zero
        /\ result.val[0][a][1] = in_rewards[0][a]
        /\ result.val[0][a][2] # result.val[0][a][1]

\* C9: calculate_tvf_mc equals calculate_tvf_n_step with n_step = N on the same
\* rewards, dones and final_value_estimates, and does not depend on values.
C9_McIsFullNStep ==
    op.name = "calculate_tvf_mc" =>
        /\ result.ok
        /\ result = calculate_tvf_n_step(in_rewards, in_dones, in_values, in_final, in_gamma, NN)
        /\ \A v2 \in {[t \in 0..NN-1 |-> [a \in 0..AA-1 |-> [h \in 0..HH-1 |-> Zero]]],
                      [t \in 0..NN-1 |-> [a \in 0..AA-1 |-> [h \in 0..HH-1 |->
                            RAdd(in_values[t][a][h], Q(1 + t + h, 1))]]]} :
            calculate_tvf_mc(in_rewards, in_dones, v2, in_final, in_gamma) = result

C9_Witness ==
    /\ op.name = "calculate_tvf_mc"
    /\ result.ok
    /\ NN >= 2 /\ HH >= 3
    /\ \E a \in 0..AA-1 :
        /\ in_dones[NN - 1][a] = 0
        /\ in_final[a][1] # Zero
        /\ in_values[0][a][1] # Zero
        /\ result.val[NN - 1][a][2] # in_rewards[NN - 1][a]

\* C10: get_g_weights(max_n) returns max_n weights, weight n being
\* (1 - lambda) * lambda^(n-1) for n < max_n and the last one the remaining
\* weight, so that they sum to 1 and the assertion does not fail.
C10_WeightsSumToOne ==
    op.name = "get_g_weights" =>
        /\ result.ok
        /\ Len(result.val) = op.max_n
        /\ \A n \in 1..(op.max_n - 1) :
            result.val[n] = RMul(RSub(One, op.lamb), RPow(op.lamb, n - 1))
        /\ SeqSum(result.val) = One

\* C11: calculate_gae_tvf reconstructs, for every timestep t in 0..N and agent a,
\* the implied one-step reward as the 1-step entry minus the 0-step entry of the
\* value curve at that same timestep.
C11_ExpectedRewards ==
    (op.name = "calculate_gae_tvf" /\ op.tvf_gamma = One /\ HH >= 2) =>
        LET expected_rewards == ExpectedRewards(in_values, in_final)
        IN  /\ expected_rewards.ok
            /\ \A t \in 0..NN, a \in 0..AA-1 :
                   expected_rewards.val[t][a] = RSub(AllCurves[t][a][1], AllCurves[t][a][0])

\* C12: get_rediscounted_value_estimate(values, g, g, horizons) returns exactly the
\* last column values[:, -1], whatever the length and content of horizons.
C12_RediscountIdentity ==
    (op.name = "get_rediscounted_value_estimate" /\ op.old_gamma = op.new_gamma) =>
        /\ result.ok
        /\ DOMAIN result.val = DOMAIN op.values
        /\ \A b \in DOMAIN op.values : result.val[b] = op.values[b][Dim(op.values[b]) - 1]

\* the identity on a horizon array that is shorter than the rows of values
C12_Witness ==
    /\ op.name = "get_rediscounted_value_estimate"
    /\ op.old_gamma = op.new_gamma
    /\ Len(op.horizons) < Dim(op.values[0])
    /\ op.values[0][0] # op.values[0][Dim(op.values[0]) - 1]
    /\ result.ok

\* sum over the sampled horizons i = 1..k of (v_i - v_{i-1}) / old_gamma^h_i * new_gamma^h_i
RECURSIVE RediscountedSum(_, _, _, _, _)
RediscountedSum(row, horizons, old_gamma, new_gamma, k) ==
    IF k = 0 THEN Zero
    ELSE LET before == IF k = 1 THEN Zero ELSE row[k - 2]
             h == horizons[k]
         IN  RAdd(RediscountedSum(row, horizons, old_gamma, new_gamma, k - 1),
                  RMul(RDiv(RSub(row[k - 1], before), RPow(old_gamma, h)), RPow(new_gamma, h)))

\* C13: with old_gamma # new_gamma the result is, for each batch row, the sum over
\* the sampled horizons i of (v_i - v_{i-1}) / old_gamma^{h_i} * new_gamma^{h_i},
\* with v_{-1} = 0 (one value column per sampled horizon).
C13_Rediscounted ==
    (/\ op.name = "get_rediscounted_value_estimate"
     /\ op.old_gamma # op.new_gamma
     /\ Len(op.horizons) <= Dim(op.values[0])) =>
        /\ result.ok
        /\ DOMAIN result.val = DOMAIN op.values
        /\ \A b \in DOMAIN op.values :
               result.val[b] = RediscountedSum(op.values[b], op.horizons, op.old_gamma,
                                               op.new_gamma, Len(op.horizons))

\* two sampled horizons with different values, the first one not at horizon 0
C13_Witness ==
    /\ op.name = "get_rediscounted_value_estimate"
    /\ op.old_gamma # op.new_gamma
    /\ Len(op.horizons) = 2 /\ Dim(op.values[0]) = 2
    /\ op.horizons[1] > 0 /\ op.horizons[2] > op.horizons[1]
    /\ op.values[0][0] # Zero /\ op.values[0][1] # op.values[0][0]
    /\ result.ok /\ result.val[0] # op.values[0][1]

C15_DenseRange ==
    (/\ op.name = "generate_horizon_sample"
     /\ (op.samples = -1 \/ op.samples > op.max_value + 1)) =>
        /\ result.ok
        /\ Len(result.val) = op.max_value + 1
        /\ \A i \in 1..(op.max_value + 1) : result.val[i] = i - 1

C15_Witness ==
    /\ op.name = "generate_horizon_sample"
    /\ op.samples > op.max_value + 1
    /\ op.max_value >= 2
    /\ op.distribution = "saturated_geometric"
    /\ op.force_first_and_last
    /\ result.ok /\ Len(result.val) = op.max_value + 1

\* C16: with force_first_and_last, for every max_value >= 0, samples >= 1 and
\* supported distribution, the returned array starts with 0 and ends with max_value.
C16_ForcedEnds ==
    (/\ op.name = "generate_horizon_sample"
     /\ op.force_first_and_last
     /\ op.samples >= 1
     /\ op.distribution \in Distributions
     /\ result.ok) =>
        /\ Len(result.val) >= 1
        /\ result.val[1] = 0
        /\ result.val[Len(result.val)] = op.max_value

\* C17: for every supported distribution, whenever generate_horizon_sample returns,
\* the result is an array of integers in [0, max_value] in non-decreasing order.
C17_SortedInRange ==
    (/\ op.name = "generate_horizon_sample"
     /\ op.distribution \in Distributions
     /\ result.ok) =>
        /\ \A i \in 1..Len(result.val) : result.val[i] \in 0..op.max_value
        /\ \A i \in 1..(Len(result.val) - 1) : result.val[i] <= result.val[i + 1]

\* a random sample of three with a repeated horizon, and the ends not forced
C17_Witness ==
    /\ op.name = "generate_horizon_sample"
    /\ op.distribution = "geometric"
    /\ ~op.force_first_and_last
    /\ op.samples = 3
    /\ result.ok /\ Len(result.val) = 3
    /\ result.val[1] = result.val[2] /\ result.val[2] < result.val[3]

\* C18: generate_horizon_sample raises on every call whose distribution is not a
\* supported name, for every max_value and samples.
C18_InvalidDistributionRaises ==
    (op.name = "generate_horizon_sample" /\ op.distribution \notin Distributions) => ~result.ok

\* C19: process(score, prev_score) accepts iff score > prev_score (the stored one when
\* none is passed) or the 5% draw succeeds.  On accept value becomes the neighbour
\* that existed before the call, the stored prev_score becomes score and accepts
\* grows by 1; on reject value and the stored prev_score stay and rejects grows
\* by 1.  Either way the new neighbour is generated from the resulting value, and
\* accepts + rejects equals the number of process calls.
C19_Process ==
    op.name = "process" =>
        LET before == op.before
            compared == IF op.given THEN op.prev_score ELSE before.prev_score
            accept == op.score > compared \/ op.lucky
        IN  /\ accept =>
                   /\ sa.value = before.neighbour
                   /\ sa.prev_score = op.score
                   /\ sa.accepts = before.accepts + 1 /\ sa.rejects = before.rejects
            /\ ~accept =>
                   /\ sa.value = before.value
                   /\ sa.prev_score = before.prev_score
                   /\ sa.rejects = before.rejects + 1 /\ sa.accepts = before.accepts
            /\ \E normal \in NormalDraws : sa.neighbour = Pow2(Log2(sa.value) + normal)
            /\ sa.accepts + sa.rejects = op.calls

\* after an accept, a score above the stored prev_score is rejected against a
\* larger prev_score that was passed in
C19_Witness ==
    /\ op.name = "process"
    /\ op.given /\ op.prev_score # op.before.prev_score
    /\ op.score < op.prev_score /\ op.score > op.before.prev_score
    /\ ~op.lucky
    /\ op.before.neighbour # op.before.value
    /\ sa.rejects >= 1 /\ sa.accepts >= 1
    /\ sa.rejects = op.before.rejects + 1

\* the environment's record of step t of the rollout that has just completed
RolloutEntry(t) == env.log[Len(env.log) - runner.N + t + 1]

\* what a buffer row of all_obs holds, decompressed when compression is on
HeldObs(row) == IF runner.use_compression THEN [a \in DOMAIN row |-> Decompress(row[a])] ELSE row

\* C20: after generate_rollout, called on a runner whose environment was created and
\* reset, has completed its N steps, for every t in 0..N-1
\* all_obs[t] and all_time[t] hold the observation and time before the action of
\* step t, actions[t], ext_rewards[t], log_policy[t] and terminals[t] hold the
\* action, reward, log-policy and done flag of that step, all_obs[t+1] is the
\* observation the environment returned from step t, and all_obs[N], all_time[N]
\* hold the state after the last step.
C20_BufferAlignment ==
    (runner.constructed /\ runner.pc = "done" /\ env.reset) =>
        /\ \A t \in 0..(runner.N - 1) :
               /\ HeldObs(runner.all_obs[t]) = RolloutEntry(t).obs_before
               /\ runner.all_time[t] = RolloutEntry(t).time_before
               /\ runner.actions[t] = RolloutEntry(t).actions
               /\ \A a \in DOMAIN runner.obs :
                      runner.ext_rewards[t][a] =
                          RolloutEntry(t).rewards[a] + runner.per_step_reward_noise
               /\ runner.log_policy[t] = LogPolicy(RolloutEntry(t).obs_before)
               /\ runner.terminals[t] = RolloutEntry(t).dones
               /\ HeldObs(runner.all_obs[t + 1]) = RolloutEntry(t).obs
        /\ HeldObs(runner.all_obs[runner.N]) = env.obs
        /\ runner.all_time[runner.N] = env.time

\* a completed two-step rollout of two agents, with compression, an episode end in
\* the first step and none in the second
C20_Witness ==
    /\ runner.constructed /\ runner.pc = "done" /\ env.reset
    /\ runner.N = 2 /\ Dim(runner.obs) = 2
    /\ runner.use_compression
    /\ runner.terminals[0][0] /\ ~runner.terminals[1][0]
    /\ runner.actions[0] # runner.actions[1]

\* what C21 calls a bad input of calculate_sampled_returns, N and A being read from obs
BadSampledInput ==
    LET N == op.obs_shape[1] - 1
        A == op.obs_shape[2]
    IN  \/ ~is_sorted(op.required_horizons)
        \/ Len(op.obs_shape) < 2
        \/ op.obs_shape[1] < 1
        \/ op.rewards_shape # <<N, A>>
        \/ op.dones_shape # <<N, A>>
        \/ Len(op.value_sample_horizons) = 0
        \/ op.value_sample_horizons[1] # 0
        \/ op.value_sample_horizons[Len(op.value_sample_horizons)] # runner.current_horizon

BuffersUntouched ==
    LET A == Dim(runner.obs)
        zeros == [a \in 0..A-1 |-> 0]
    IN  /\ runner.all_obs = [t \in 0..runner.N |-> zeros]
        /\ runner.all_time = [t \in 0..runner.N |-> zeros]
        /\ runner.actions = [t \in 0..runner.N-1 |-> zeros]
        /\ runner.ext_rewards = [t \in 0..runner.N-1 |-> zeros]
        /\ runner.log_policy = [t \in 0..runner.N-1 |-> zeros]
        /\ runner.terminals = [t \in 0..runner.N-1 |-> [a \in 0..A-1 |-> FALSE]]

\* C22: generate_rollout never steps the environment unless create_envs and then reset
\* have been called: whenever the environment has made a step it had been reset, and a
\* generate_rollout call made before that has failed and left the rollout buffers as
\* they were allocated.
C22_OrchestratorOrdering ==
    /\ (env.created /\ env.log # <<>>) => env.reset
    /\ (op.name = "generate_rollout" /\ runner.pc # "loop" /\ ~(env.created /\ env.reset))
           => (~result.ok /\ BuffersUntouched)

\* the largest integer not above 1 / (1 - lamb), for a fraction 0 < lamb < 1
EffectiveSteps(lamb) ==
    CHOOSE k \in 1..(lamb[2] + 1) :
        /\ k * (lamb[2] - lamb[1]) <= lamb[2]
        /\ (k + 1) * (lamb[2] - lamb[1]) > lamb[2]

\* the number of n-step returns C23 names: int(min(1/(1-lamb), args.n_steps, 100))
LambdaK(lamb) ==
    CHOOSE k \in {EffectiveSteps(lamb), args_n_steps, 100} :
        \A other \in {EffectiveSteps(lamb), args_n_steps, 100} : k <= other

\* the weight C23 gives to the n-step return
LambdaWeight(lamb, n) == RMul(RSub(One, lamb), RPow(lamb, n - 1))

\* C23: for 0 < lamb < 1 calculate_tvf_lambda returns the sum over n = 1..K of
\* (1 - lamb) * lamb^(n-1) * calculate_tvf_n_step(n_step = n), where
\* K = int(min(1/(1-lamb), args.n_steps, 100)) is at least 1; the weights total
\* 1 - lamb^K, which is not 1.
C23_LambdaMixture ==
    (op.name = "calculate_tvf_lambda" /\ RLess(Zero, op.lamb) /\ RLess(op.lamb, One)) =>
        LET K == LambdaK(op.lamb)
            g == [n \in 1..K |->
                     calculate_tvf_n_step(in_rewards, in_dones, in_values, in_final, in_gamma, n)]
            total == RSum([i \in 0..K-1 |-> LambdaWeight(op.lamb, i + 1)], K)
        IN  /\ K >= 1
            /\ result.ok
            /\ \A t \in 0..NN-1, a \in 0..AA-1, h \in 0..HH-1 :
                   result.val[t][a][h] =
                       RSum([i \in 0..K-1 |->
                                RMul(LambdaWeight(op.lamb, i + 1), g[i + 1].val[t][a][h])], K)
            /\ total = RSub(One, RPow(op.lamb, K))
            /\ total # One

\* C23 witness: lamb = 1/2 on a two-step rollout mixes the 1-step and the 2-step return,
\* which differ, with weights 1/2 and 1/4
C23_Witness ==
    /\ op.name = "calculate_tvf_lambda" /\ op.lamb = Q(1, 2)
    /\ result.ok
    /\ LambdaK(op.lamb) = 2
    /\ \E a \in 0..AA-1, h \in 0..HH-1 :
        /\ calculate_tvf_n_step(in_rewards, in_dones, in_values, in_final, in_gamma, 1).val[0][a][h]
               # calculate_tvf_n_step(in_rewards, in_dones, in_values, in_final, in_gamma, 2).val[0][a][h]
        /\ result.val[0][a][h] # Zero

\* C24: when generate_rollout completes and the call before it, with no reset in
\* between, was a completed generate_rollout, all_obs[0] and all_time[0] equal the
\* all_obs[N] and all_time[N] of that previous rollout, and the first step of this
\* rollout started from the observation the last step of the previous one returned.
C24_RolloutContinuity ==
    (runner.constructed /\ runner.pc = "done" /\ op.name = "generate_rollout"
         /\ op.before.pc = "done") =>
        /\ runner.all_obs[0] = op.before.all_obs[runner.N]
        /\ runner.all_time[0] = op.before.all_time[runner.N]
        /\ Len(env.log) >= 2 * runner.N
        /\ RolloutEntry(0).obs_before = env.log[Len(env.log) - runner.N].obs
        /\ HeldObs(runner.all_obs[0]) = RolloutEntry(0).obs_before

\* C24 witness: a second one-step rollout of two agents has completed right after a
\* first one, with compression
C24_Witness ==
    /\ runner.constructed /\ runner.pc = "done" /\ op.name = "generate_rollout"
    /\ op.before.pc = "done"
    /\ env.reset
    /\ runner.use_compression /\ Dim(runner.obs) = 2
    /\ Len(env.log) = 2
    /\ runner.all_obs[0] # op.before.all_obs[0]

\* the agents whose episode really ended in the step, i.e. done without fake_done
RealDones(entry) == {a \in DOMAIN entry.dones : entry.dones[a] /\ ~entry.infos[a].fake_done}

\* the episode lengths reported by the agents that are done, in agent order
RECURSIVE ReportedLengths(_, _)
ReportedLengths(entry, i) ==
    IF i >= Dim(entry.dones) THEN <<>>
    ELSE (IF entry.dones[i] THEN <<entry.infos[i].ep_length>> ELSE <<>>)
             \o ReportedLengths(entry, i + 1)

\* C25: every completed step of generate_rollout adds 1 to each agent's episode_len and
\* its raw reward to episode_score; the episode length of every done agent is appended to
\* episode_length_buffer; a done without fake_done adds exactly 1 to ep_count and resets
\* that agent's episode_score and episode_len to 0; a done with fake_done, and no done at
\* all, leave ep_count and the two counters as the step's increment made them.
C25_StepBookkeeping ==
    (runner.constructed /\ runner.pc = "loop" /\ runner'.t = runner.t + 1) =>
        LET entry == env'.log[Len(env'.log)]
        IN  /\ \A a \in DOMAIN runner.obs :
                   IF a \in RealDones(entry)
                   THEN runner'.episode_len[a] = 0 /\ runner'.episode_score[a] = 0
                   ELSE /\ runner'.episode_len[a] = runner.episode_len[a] + 1
                        /\ runner'.episode_score[a] =
                               runner.episode_score[a] + entry.infos[a].raw_reward
            /\ runner'.ep_count = runner.ep_count + Cardinality(RealDones(entry))
            /\ runner'.episode_length_buffer =
                   runner.episode_length_buffer \o ReportedLengths(entry, 0)

C25_EpisodeBookkeeping == [][C25_StepBookkeeping]_vars

\* C25 witness: in a two-step rollout of two agents after reset, the first agent lost a
\* life in the first step and the second agent's episode ended in the second step
C25_Witness ==
    /\ runner.constructed /\ runner.pc = "done" /\ env.reset
    /\ runner.N = 2 /\ Dim(runner.obs) = 2 /\ Len(env.log) = 2
    /\ env.log[1].dones[0] /\ env.log[1].infos[0].fake_done
    /\ env.log[2].dones[1] /\ ~env.log[2].infos[1].fake_done
    /\ runner.episode_len = [a \in 0..1 |-> IF a = 0 THEN 2 ELSE 0]
    /\ runner.ep_count = 1
    /\ Len(runner.episode_length_buffer) = 3

\* the horizons argument of the value-model call of the last operation
GridPassed == result.val.calls[1].horizons

\* the effective horizon as C26 gives it
C26_EffectiveHorizon ==
    IF ~RLess(op.new_gamma, One) THEN runner.current_horizon
    ELSE LET reach == Rint(RDiv(Q(7, 1), RSub(One, op.new_gamma)))
         IN  IF reach < runner.current_horizon THEN reach ELSE runner.current_horizon

\* C26: when get_tvf_rediscounted_value_estimates rediscounts, the horizon grid passed to
\* the value model is strictly increasing, holds only integers in 1..effective_horizon,
\* ends with effective_horizon and has at most 400 entries, effective_horizon being
\* current_horizon for new_gamma >= 1 and min(round(7/(1-new_gamma)), current_horizon)
\* otherwise.
C26_HorizonGrid ==
    (op.name = "get_tvf_rediscounted_value_estimates" /\ op.new_gamma # runner.tvf_gamma) =>
        /\ result.ok /\ result.val.rediscounted
        /\ Len(GridPassed) >= 1 /\ Len(GridPassed) <= 400
        /\ \A i \in 1..Len(GridPassed) : GridPassed[i] \in 1..C26_EffectiveHorizon
        /\ \A i \in 1..Len(GridPassed)-1 : GridPassed[i] < GridPassed[i + 1]
        /\ GridPassed[Len(GridPassed)] = C26_EffectiveHorizon
        /\ result.val.calls[2].horizons = GridPassed

\* C26 witness: a horizon of 802 under new_gamma = 1 is sampled with a stride of 3,
\* which does not divide it
C26_Witness ==
    /\ op.name = "get_tvf_rediscounted_value_estimates"
    /\ op.new_gamma = One /\ runner.tvf_gamma = Q(99, 100)
    /\ runner.current_horizon = 802
    /\ result.val.rediscounted
    /\ Len(GridPassed) = 268
    /\ GridPassed[1] = 1 /\ GridPassed[2] = 4 /\ GridPassed[268] = 802

\* max(128, tvf_horizon_samples, tvf_value_samples)
C27_MinHorizon ==
    CHOOSE m \in {128, runner.tvf_horizon_samples, runner.tvf_value_samples} :
        \A other \in {128, runner.tvf_horizon_samples, runner.tvf_value_samples} : m >= other

\* C27: Runner.current_horizon is an integer that never exceeds args.tvf_max_horizon; with
\* auto_horizon on and tvf_max_horizon >= max(128, tvf_horizon_samples, tvf_value_samples) it
\* is at least that minimum, for the episode-length, agent-age and simulated-annealing
\* strategies and every value of their statistic; with auto_horizon off it equals
\* int(tvf_max_horizon).
C27_CurrentHorizon ==
    (op.name = "current_horizon" /\ (runner.auto_horizon => runner.auto_strategy # "off")) =>
        /\ result.ok
        /\ result.val \in Int
        /\ ~RLess(runner.tvf_max_horizon, Q(result.val, 1))
        /\ (runner.auto_horizon /\ ~RLess(runner.tvf_max_horizon, Q(C27_MinHorizon, 1)))
               => result.val >= C27_MinHorizon
        /\ ~runner.auto_horizon =>
               /\ Q(result.val, 1) = runner.tvf_max_horizon \/ RLess(Q(result.val, 1), runner.tvf_max_horizon)
               /\ RLess(runner.tvf_max_horizon, Q(result.val + 1, 1))

\* C27 witness: the episode-length strategy with lengths 45 and 48 (mean 46.5, standard
\* deviation 1.5) gives 3 * 49.5 = 148.5, above the minimum of 128 and below the
\* maximum of 200.5: the horizon is 148
C27_Witness ==
    /\ op.name = "current_horizon"
    /\ runner.auto_horizon /\ runner.auto_strategy = "episode_length"
    /\ runner.episode_length_buffer = <<45, 48>>
    /\ runner.tvf_max_horizon = Q(401, 2)
    /\ C27_MinHorizon = 128
    /\ result.ok /\ result.val = 148

Startable ==
    {job \in {runner.job_list[i] : i \in 1..Len(runner.job_list)} :
        /\ job.experiment_name \in op.accepted
        /\ get_status(op.before[job.id]) \in {"", "pending"}}

\* C29: a call of run_next_experiment starts at most one job: the first one in sorted order
\* among those that pass the filter and have status "" or "pending", and none if there is no
\* such job; a job that is running, done, stale or clash, and so any job whose lock file is
\* there, is not started.
C29_StartsFirstStartable ==
    op.name = "run_next_experiment" =>
        /\ Len(op.started) <= 1
        /\ op.started = <<>> <=> Startable = {}
        /\ \A i \in 1..Len(op.started) :
               /\ \E job \in Startable :
                      /\ job.id = op.started[i]
                      /\ \A other \in Startable \ {job} :
                             TupleLess(SortKey(job, op.before[job.id]),
                                       SortKey(other, op.before[other.id]))
               /\ get_status(op.before[op.started[i]]) \notin {"running", "done", "stale", "clash"}
               /\ op.before[op.started[i]].lock = "none"

\* C29 witness: the first job in insertion order holds a stale lock and the call has
\* started another job, one that comes later in insertion order than a third startable job
C29_Witness ==
    /\ op.name = "run_next_experiment"
    /\ get_status(op.before[0]) = "stale"
    /\ op.started = <<2>>
    /\ op.accepted = {0, 1}
    /\ get_status(op.before[1]) = "pending"
    /\ env.runs[0].lock = "old"

\* ceil(B / max_micro_batch_size), from its definition
C30_Slices ==
    CHOOSE n \in 0..Len(op.rows) :
        /\ n * runner.max_micro_batch_size >= Len(op.rows)
        /\ (n = 0 \/ (n - 1) * runner.max_micro_batch_size < Len(op.rows))

\* the rows first+1 .. last of a sequence
C30_Rows(seq, first, last) == [i \in 1..(last - first) |-> seq[first + i]]

\* C30: with B > max_micro_batch_size, detached_batch_forward calls the model on
\* ceil(B / max_micro_batch_size) consecutive slices of at most max_micro_batch_size rows
\* that cover the indices 0..B-1 once each and in order, with aux_features sliced by the
\* same bounds, and joins the outputs in that order, so that row i of every output is the
\* model's output for obs[i]; with B <= max_micro_batch_size the model is called once.
C30_MicroBatches ==
    op.name = "detached_batch_forward" =>
        LET B == Len(op.rows)
            m == runner.max_micro_batch_size
            calls == result.calls
            whole == ModelForward(op.rows, op.aux_features)
        IN  /\ result.ok
            /\ IF B > m
               THEN /\ Len(calls) = C30_Slices
                    /\ \A n \in 1..Len(calls) :
                           LET first == (n - 1) * m
                               last == IF n * m < B THEN n * m ELSE B
                           IN  /\ Len(calls[n].obs) \in 1..m
                               /\ calls[n].obs = C30_Rows(op.rows, first, last)
                               /\ calls[n].aux_features =
                                      IF op.aux_features = None THEN None
                                      ELSE Given(C30_Rows(op.aux_features.rows, first, last))
               ELSE Len(calls) = 1 /\ calls[1].obs = op.rows
            /\ \A k \in DOMAIN whole : result.val[k] = whole[k]

\* C30 witness: four compressed rows with aux features went through the model in slices
\* of 3 and 1 rows
C30_Witness ==
    /\ op.name = "detached_batch_forward"
    /\ Len(op.rows) = 4 /\ runner.max_micro_batch_size = 3
    /\ runner.use_compression /\ op.aux_features # None
    /\ op.rows[1] # op.rows[4]
    /\ Len(result.calls) = 2
    /\ Len(result.calls[1].obs) = 3 /\ Len(result.calls[2].obs) = 1
    /\ Len(result.val.value) = 4

====
